---- MODULE Spec2Model ----
(***************************************************************************)
(* A model of the OAuth 2.1 authorization server (oauth/endpoints.py), the *)
(* credential signer (oauth/jwt_utils.py) and the access control applied   *)
(* to protected requests (oauth/middleware.py, sse.py).                    *)
(*                                                                         *)
(* A value from secrets.token_urlsafe is a value never drawn before: the   *)
(* n-th session id, code, access token or client id is the number n, each  *)
(* kind counted on its own, since a value of one kind is never looked up   *)
(* in the store of another.  0 stands for the empty string and -1 for a    *)
(* value that was never drawn.                                             *)
(* Time is the integer clock now; time.time() > expires_at is now >        *)
(* expires_at.                                                             *)
(*                                                                         *)
(* A handler's response is a state function (<handler>_response) of its    *)
(* arguments; the action <handler> is the handler's effect on the stores.  *)
(* A handler runs without interruption between two awaits, so an action is *)
(* the code between two suspension points.                                 *)
(*                                                                         *)
(* Spec:       the requests of the authorization flow, one at a time.      *)
(* SpecConc:   the flow with POST /token requests suspended in             *)
(*             request.json() and resumed in any order.                    *)
(* SpecAccess: requests to /mcp, /sse and /message under every local       *)
(*             configuration and every outcome of the collaborator call.   *)
(***************************************************************************)
EXTENDS Integers, Sequences, FiniteSets, TLC

\* Python's None, and the absent value of an optional form field.
None == "None"

(***************************************************************************)
(* Bounds of the model.                                                    *)
(***************************************************************************)
\* successful GET /authorize calls
MaxSessions == 1
\* advances of the clock
MaxTicks == 2
\* entries POST /token may add to access_tokens
MaxTokens == 2
\* POST /register calls
MaxClients == 2
MaxSigned == 1      \* tokens the signer creates
MaxRestarts == 2    \* process restarts

(***************************************************************************)
(* Program constants.                                                      *)
(***************************************************************************)
\* pending_authorizations and authorization_codes live for 10 minutes
SESSION_TTL == 600
CODE_TTL == 600
\* expires_in of the token response and of the access_tokens entry
TOKEN_EXPIRES_IN == 3600
\* jwt_utils: lifetimes of signed tokens
ACCESS_TOKEN_EXPIRE_SECONDS == 86400
REFRESH_TOKEN_EXPIRE_SECONDS == 2592000
\* signup_submit's minimum password length
MIN_PASSWORD_LEN == 6

(***************************************************************************)
(* Input sets.                                                             *)
(***************************************************************************)
ResponseTypes == {"code", "token"}
ClientIds == {"c1", "c2"}
Verifiers == {"v1", "v2", "c1"}
ConsentActions == {"allow", "deny", ""}
Users == {"u1", "u2"}
Passwords == {"short", "secret1"}
TickSizes == {1, SESSION_TTL}

\* The e-mail address the Identity Collaborator holds for a user.
EmailOf(u) == IF u = "u1" THEN "u1@x" ELSE "u2@x"
Emails == {EmailOf(u) : u \in Users}

\* base64url(sha256(code_verifier)) without padding.  The digest is a fixed
\* function without collisions on Verifiers; it is not the identity, and the
\* digest of a challenge value is not that challenge.
S256(v) == CASE v = "v1" -> "c1"
             [] v = "v2" -> "c2"
             [] v = "c1" -> "c3"
             [] OTHER -> "c0"
\* GET /authorize parameters: client_id, redirect_uri, scope, state,
\* code_challenge.
AuthorizeInputs ==
    {<<"c1", "https://cb", "mcp:tools", "xyz", S256("v1")>>,
     <<"c1", "https://cb", "mcp:read", "", S256("v1")>>,
     <<"c1", "https://cb", "mcp:tools", "", "">>}

VARIABLES
    now,                    \* time.time()
    ticks,                  \* clock advances so far
    supabase,               \* _supabase is configured
    registered_clients,     \* oauth.stores
    authorization_codes,
    access_tokens,
    pending_authorizations,
    authenticated_sessions,
    inflight,               \* POST /token requests suspended in request.json()
    consents,               \* POST /consent requests received, and their answers
    created,               \* history: session ids GET /authorize created
    logins,                 \* history: logins the Identity Collaborator accepted
    minted,                 \* history: code -> the session it was minted for, and when
    redeemed,               \* history: code -> number of token responses for it
    issued,                 \* history: token pairs returned by POST /token
    race,                   \* history: the answers to two requests in flight at once
    refused,                \* history: the codes POST /token refused for PKCE
    config,                 \* the local configuration (load_config())
    jwt_secret,             \* jwt_utils._jwt_secret, "" for None
    env_secret,             \* os.getenv("JWT_SECRET"), "" when unset
    secret_file,            \* content of SECRET_FILE, None when it does not exist
    file_writable,          \* SECRET_FILE can be written
    gens,                   \* secrets generated so far
    restarts,               \* process restarts so far
    first,                  \* history: this process's first secret resolution
    prev,                   \* history: the resolution of the process before
    signed,                 \* history: the tokens the signer created
    checked,                \* history: the last verification and its result
    last                    \* history: the last protected request and its answer

stores == <<registered_clients, authorization_codes, access_tokens,
            pending_authorizations, authenticated_sessions>>
history == <<created, logins, minted, redeemed, issued, race, refused>>
flowVars == <<supabase, stores, inflight, consents, history>>
signerVars == <<jwt_secret, env_secret, secret_file, file_writable, gens,
                restarts, first, prev>>
signerLog == <<signed, checked>>
accessVars == <<config, last>>

vars == <<now, ticks, flowVars, signerVars, signerLog, accessVars>>

\* dict operations
Put(d, k, v) == [x \in DOMAIN d \cup {k} |-> IF x = k THEN v ELSE d[x]]
Del(d, k) == [x \in DOMAIN d \ {k} |-> d[x]]
Empty == [x \in {} |-> None]

\* A response: endpoint, status, error code (the OAuth error, or a tag for
\* the HTML page shown), the session id or code the request named, where a
\* redirect leads, the state parameter of a redirect to the client, and the
\* value (session id, code or access token) handed out.  A handler's
\* response is a function of its arguments and the state it starts in.
Response(ep, status, error, key, loc, st, val) ==
    [ep |-> ep, status |-> status, error |-> error, key |-> key,
     loc |-> loc, state |-> st, val |-> val]
NoResponse == Response("", 0, "", 0, "", "", 0)

\* The session ids and codes a client can name: a value that was never drawn
\* (-1), the empty string (0) and every value drawn so far.
SessionNames == {-1, 0} \cup created
CodeNames == {-1, 0} \cup DOMAIN minted

\* A POST /token request is a record of the fields the handler reads; body
\* says how they arrive: "form" (the form carries grant_type), "json" (no
\* grant_type in the form, the body is a JSON object) or "bad" (no grant_type
\* in the form and request.json() raises).
TokenRequest(body, grant_type, code, client_id, code_verifier, refresh_token) ==
    [body |-> body, grant_type |-> grant_type, code |-> code,
     client_id |-> client_id, code_verifier |-> code_verifier,
     refresh_token |-> refresh_token]
\* no request
NoRequest == TokenRequest("", None, 0, None, None, None)

\* What is known of a request that was in flight together with another one
\* naming the same valid code: the code, and the status and error of its
\* answer (status 0 while it is in flight).
NoRace == [code |-> 0, status |-> 0, error |-> ""]

\* A POST /consent request whose form FastAPI has parsed: its fields, whether
\* another request for the same session was waiting with it, and the status
\* and code of its answer (status 0 until the handler has run).
ConsentRequest(session, action, together, status, val) ==
    [session |-> session, action |-> action, together |-> together,
     status |-> status, val |-> val]
NoConsent == ConsentRequest(0, "", FALSE, 0, 0)


(***************************************************************************)
(* The state after the modules are imported and init_oauth_routes has run. *)
(***************************************************************************)
FlowInit ==
    /\ supabase \in BOOLEAN
    /\ registered_clients = Empty
    /\ authorization_codes = Empty
    /\ access_tokens = Empty
    /\ pending_authorizations = Empty
    /\ authenticated_sessions = Empty
    /\ inflight = [k \in {"k1", "k2"} |-> NoRequest]
    /\ consents = [k \in {"k1", "k2"} |-> NoConsent]
    /\ created = {}
    /\ logins = {}
    /\ minted = Empty
    /\ redeemed = Empty
    /\ issued = {}
    /\ race = [k \in {"k1", "k2"} |-> NoRace]
    /\ refused = {}

\* Time passes.
Tick(d) ==
    /\ ticks < MaxTicks
    /\ ticks' = ticks + 1
    /\ now' = now + d
    /\ UNCHANGED <<flowVars, signerVars, signerLog, accessVars>>

(***************************************************************************)
(* POST /register                                                          *)
(***************************************************************************)
\* A POST /register body that is JSON but not an object (a list, a string, a
\* number).
NotAnObject == "<not an object>"

\* POST /register handing out the same client_id every time.
register_client_response_SameId(client_name) ==
    Response("register", 201, "", 0, "", "", 1)

\* client_name is the client_name of the body; None when the body has none
\* or is not JSON (data = {}), NotAnObject when the body is JSON but not an
\* object: request.json() returns it and data.get raises AttributeError,
\* which nothing catches.
register_client_response(client_name) ==
    IF client_name = NotAnObject
    THEN Response("register", 500, "unhandled_exception", 0, "", "", 0)
    ELSE Response("register", 201, "", 0, "", "",
                  Cardinality(DOMAIN registered_clients) + 1)

register_client(client_name) ==
    /\ Cardinality(DOMAIN registered_clients) < MaxClients
    /\ LET client_id == register_client_response(client_name).val
           client_info == [client_id |-> client_id,
                           client_secret |-> client_id,
                           client_name |-> IF client_name = None
                                           THEN "MCP Client" ELSE client_name,
                           created_at |-> now]
       IN  registered_clients' =
               IF register_client_response(client_name).status = 201
               THEN Put(registered_clients, client_id, client_info)
               ELSE registered_clients
    /\ UNCHANGED <<signerVars, signerLog, accessVars>>
    /\ UNCHANGED <<now, ticks, supabase, authorization_codes, access_tokens,
                   pending_authorizations, authenticated_sessions, inflight,
                   consents,
                   history>>

(***************************************************************************)
(* GET /authorize                                                          *)
(***************************************************************************)
\* GET /authorize without the check of response_type.
authorize_response_AnyType(response_type) ==
    Response("authorize", 302, "", 0, "login", "", Cardinality(created) + 1)

authorize_response(response_type) ==
    IF response_type # "code"
    THEN Response("authorize", 400, "unsupported_response_type", 0, "", "", 0)
    ELSE Response("authorize", 302, "", 0, "login", "", Cardinality(created) + 1)

authorize(response_type, client_id, redirect_uri, scope, state, code_challenge, code_challenge_method) ==
    /\ LET r == authorize_response(response_type) IN
       IF r.status = 400
       THEN UNCHANGED <<pending_authorizations, created>>
       ELSE /\ Cardinality(created) < MaxSessions
            /\ pending_authorizations' =
                   Put(pending_authorizations, r.val,
                       [client_id |-> client_id,
                        redirect_uri |-> redirect_uri,
                        scope |-> scope,
                        state |-> state,
                        code_challenge |-> code_challenge,
                        code_challenge_method |-> code_challenge_method,
                        created_at |-> now,
                        expires_at |-> now + SESSION_TTL])
            /\ created' = created \cup {r.val}
    /\ UNCHANGED <<signerVars, signerLog, accessVars>>
    /\ UNCHANGED <<now, ticks, supabase, registered_clients, authorization_codes,
                   access_tokens, authenticated_sessions, inflight, consents,
                   logins,
                   minted, redeemed, issued, race, refused>>

\* The check the login and signup steps start with: the 400 response when the
\* session id is empty or unknown, and the 400 response when it has expired.
\* SessionGate is the response, or NoResponse when the session passes.
SessionGate(ep, session) ==
    IF session = 0 \/ session \notin DOMAIN pending_authorizations
    THEN Response(ep, 400, "invalid_session", session, "", "", 0)
    ELSE IF now > pending_authorizations[session].expires_at
    THEN Response(ep, 400, "session_expired", session, "", "", 0)
    ELSE NoResponse

\* pending_authorizations after that check: an expired session is deleted.
SessionGateStore(ep, session) ==
    IF SessionGate(ep, session).error = "session_expired"
    THEN Del(pending_authorizations, session)
    ELSE pending_authorizations

(***************************************************************************)
(* GET /login                                                              *)
(***************************************************************************)
login_page_response(session, registered) ==
    LET gate == SessionGate("login_page", session) IN
    IF gate # NoResponse THEN gate
    ELSE Response("login_page", 200, IF registered = "1" THEN "registered" ELSE "",
                  session, "", "", 0)

login_page(session, registered) ==
    /\ pending_authorizations' = SessionGateStore("login_page", session)
    /\ UNCHANGED <<signerVars, signerLog, accessVars>>
    /\ UNCHANGED <<now, ticks, supabase, registered_clients,
                   authorization_codes, access_tokens, authenticated_sessions,
                   inflight, consents, history>>

(***************************************************************************)
(* POST /login.  outcome is what _supabase.auth.sign_in_with_password does: *)
(* "ok" (response.user is the user with that e-mail), "reject"             *)
(* (response.user is None) or "raise".                                     *)
(***************************************************************************)
UserWithEmail(email) == CHOOSE u \in Users : EmailOf(u) = email

login_submit_response(session, email, password, outcome) ==
    LET gate == SessionGate("login_submit", session) IN
    IF gate # NoResponse THEN gate
    ELSE IF ~supabase
    THEN Response("login_submit", 302, "", session, "consent", "", 0)
    ELSE IF outcome = "ok"
    THEN Response("login_submit", 302, "", session, "consent", "", 0)
    ELSE IF outcome = "reject"
    THEN Response("login_submit", 200, "invalid_credentials", session, "", "", 0)
    ELSE Response("login_submit", 200, "authentication_failed", session, "", "", 0)

\* The entry of authenticated_sessions a successful login writes.
LoginUser(email) ==
    IF ~supabase
    THEN [email |-> email, user_id |-> "demo-user"]
    ELSE [email |-> email, user_id |-> UserWithEmail(email)]

login_submit(session, email, password, outcome) ==
    /\ pending_authorizations' = SessionGateStore("login_submit", session)
    /\ IF login_submit_response(session, email, password, outcome).status = 302
       THEN /\ authenticated_sessions' =
                   Put(authenticated_sessions, session, LoginUser(email))
            /\ logins' = logins \cup
                   {[session |-> session, email |-> LoginUser(email).email,
                     user_id |-> LoginUser(email).user_id]}
       ELSE UNCHANGED <<authenticated_sessions, logins>>
    /\ UNCHANGED <<signerVars, signerLog, accessVars>>
    /\ UNCHANGED <<now, ticks, supabase, registered_clients,
                   authorization_codes, access_tokens, inflight, consents,
                   created,
                   minted, redeemed, issued, race, refused>>

(***************************************************************************)
(* GET /signup                                                             *)
(***************************************************************************)
signup_page_response(session) ==
    LET gate == SessionGate("signup_page", session) IN
    IF gate # NoResponse THEN gate
    ELSE Response("signup_page", 200, "", session, "", "", 0)

signup_page(session) ==
    /\ pending_authorizations' = SessionGateStore("signup_page", session)
    /\ UNCHANGED <<signerVars, signerLog, accessVars>>
    /\ UNCHANGED <<now, ticks, supabase, registered_clients,
                   authorization_codes, access_tokens, authenticated_sessions,
                   inflight, consents, history>>

(***************************************************************************)
(* POST /signup.  outcome is what _supabase.auth.sign_up does: "ok"        *)
(* (response.user is set), "reject" (response.user is None), "raise" or    *)
(* "raise_registered" (an exception saying the e-mail is already           *)
(* registered).  The error tags that start with sign_up are the cases in   *)
(* which sign_up was called.                                               *)
(***************************************************************************)
signup_submit_response(session, email, password, confirm_password, outcome) ==
    LET gate == SessionGate("signup_submit", session) IN
    IF gate # NoResponse THEN gate
    ELSE IF password # confirm_password
    THEN Response("signup_submit", 200, "passwords_mismatch", session, "", "", 0)
    ELSE IF Len(password) < MIN_PASSWORD_LEN
    THEN Response("signup_submit", 200, "password_too_short", session, "", "", 0)
    ELSE IF ~supabase
    THEN Response("signup_submit", 302, "", session, "login_registered", "", 0)
    ELSE IF outcome = "ok"
    THEN Response("signup_submit", 302, "sign_up_ok", session,
                  "login_registered", "", 0)
    ELSE IF outcome = "reject"
    THEN Response("signup_submit", 200, "sign_up_no_user", session, "", "", 0)
    ELSE IF outcome = "raise_registered"
    THEN Response("signup_submit", 200, "sign_up_already_registered", session,
                  "", "", 0)
    ELSE Response("signup_submit", 200, "sign_up_failed", session, "", "", 0)

signup_submit(session, email, password, confirm_password, outcome) ==
    /\ pending_authorizations' = SessionGateStore("signup_submit", session)
    /\ UNCHANGED <<signerVars, signerLog, accessVars>>
    /\ UNCHANGED <<now, ticks, supabase, registered_clients,
                   authorization_codes, access_tokens, authenticated_sessions,
                   inflight, consents, history>>

(***************************************************************************)
(* GET /consent                                                            *)
(***************************************************************************)
consent_page_response(session) ==
    IF session = 0 \/ session \notin DOMAIN pending_authorizations
    THEN Response("consent_page", 400, "invalid_session", session, "", "", 0)
    ELSE IF session \notin DOMAIN authenticated_sessions
    THEN Response("consent_page", 302, "", session, "login", "", 0)
    ELSE Response("consent_page", 200, "", session, "", "", 0)

consent_page(session) ==
    UNCHANGED vars

(***************************************************************************)
(* POST /consent                                                           *)
(***************************************************************************)
\* authenticated_sessions.get(session, {}) followed by .get(field)
UserInfo(session, field) ==
    IF session \in DOMAIN authenticated_sessions
    THEN authenticated_sessions[session][field]
    ELSE None

\* POST /consent generating a code before it looks at the action.
consent_submit_response_DenyMints(session, action) ==
    IF session = 0 \/ session \notin DOMAIN pending_authorizations
    THEN Response("consent_submit", 400, "invalid_session", session, "", "", 0)
    ELSE LET auth_data == pending_authorizations[session] IN
         Response("consent_submit", 302,
                  IF action = "deny" THEN "access_denied" ELSE "", session,
                  auth_data.redirect_uri, auth_data.state,
                  Cardinality(DOMAIN minted) + 1)

consent_submit_response(session, action) ==
    IF session = 0 \/ session \notin DOMAIN pending_authorizations
    THEN Response("consent_submit", 400, "invalid_session", session, "", "", 0)
    ELSE LET auth_data == pending_authorizations[session] IN
         IF action = "deny"
         THEN Response("consent_submit", 302, "access_denied", session,
                       auth_data.redirect_uri, auth_data.state, 0)
         ELSE Response("consent_submit", 302, "", session,
                       auth_data.redirect_uri, auth_data.state,
                       Cardinality(DOMAIN minted) + 1)

\* The query parameters of the redirect POST /consent answers with: params
\* as the handler builds it before urlencode.  A key that is not set is the
\* empty sequence; state is set only `if state`.
consent_redirect_params(session, action) ==
    LET auth_data == pending_authorizations[session]
        r == consent_submit_response(session, action)
    IN  [error |-> IF action = "deny" THEN <<"access_denied">> ELSE <<>>,
         error_description |-> IF action = "deny"
                               THEN <<"User denied access">> ELSE <<>>,
         code |-> IF action = "deny" THEN <<>> ELSE <<r.val>>,
         state |-> IF auth_data.state # "" THEN <<auth_data.state>> ELSE <<>>]

\* The authorization code POST /consent stores for the session.
MintedCode(session) ==
    LET auth_data == pending_authorizations[session] IN
    [client_id |-> auth_data.client_id,
     redirect_uri |-> auth_data.redirect_uri,
     scope |-> auth_data.scope,
     code_challenge |-> auth_data.code_challenge,
     code_challenge_method |-> auth_data.code_challenge_method,
     user_id |-> UserInfo(session, "user_id"),
     user_email |-> UserInfo(session, "email"),
     created_at |-> now,
     expires_at |-> now + CODE_TTL]

\* The handler's body without the deletion of the PendingAuthorization and
\* of the AuthenticatedSession after the code is stored.
consent_body_KeepsSession(session, action) ==
    LET r == consent_submit_response(session, action) IN
       IF r.status = 400
       THEN UNCHANGED <<pending_authorizations, authenticated_sessions,
                        authorization_codes, minted, redeemed>>
       ELSE /\ UNCHANGED <<pending_authorizations, authenticated_sessions>>
            /\ IF r.val = 0
               THEN UNCHANGED <<authorization_codes, minted, redeemed>>
               ELSE /\ authorization_codes' =
                          Put(authorization_codes, r.val, MintedCode(session))
                    /\ minted' = Put(minted, r.val,
                                     [session |-> session,
                                      at |-> now,
                                      session_expires_at |->
                                          pending_authorizations[session].expires_at])
                    /\ redeemed' = Put(redeemed, r.val, 0)

\* The handler's body, from the lookup of the session to its return; it has
\* no await.
consent_body(session, action) ==
    LET r == consent_submit_response(session, action) IN
       IF r.status = 400
       THEN UNCHANGED <<pending_authorizations, authenticated_sessions,
                        authorization_codes, minted, redeemed>>
       ELSE /\ pending_authorizations' = Del(pending_authorizations, session)
            /\ authenticated_sessions' = Del(authenticated_sessions, session)
            /\ IF r.val = 0
               THEN UNCHANGED <<authorization_codes, minted, redeemed>>
               ELSE /\ authorization_codes' =
                          Put(authorization_codes, r.val, MintedCode(session))
                    /\ minted' = Put(minted, r.val,
                                     [session |-> session,
                                      at |-> now,
                                      session_expires_at |->
                                          pending_authorizations[session].expires_at])
                    /\ redeemed' = Put(redeemed, r.val, 0)

consent_submit(session, action) ==
    /\ consent_body(session, action)
    /\ UNCHANGED <<signerVars, signerLog, accessVars>>
    /\ UNCHANGED <<now, ticks, supabase, registered_clients, access_tokens,
                   inflight, consents, created, logins, issued, race,
                   refused>>

\* A POST /consent request is received: FastAPI reads the form (Form(...))
\* before it calls the handler, so that another request can be received
\* before this one's handler runs.
consent_await(k, session, action) ==
    /\ consents[k] = NoConsent
    /\ session # 0
    /\ consents' =
          [j \in DOMAIN consents |->
             IF j = k
             THEN ConsentRequest(session, action,
                                 \E k2 \in DOMAIN consents \ {k} :
                                     /\ consents[k2].session = session
                                     /\ consents[k2].status = 0,
                                 0, 0)
             ELSE IF consents[j].session = session /\ consents[j].status = 0
             THEN [consents[j] EXCEPT !.together = TRUE]
             ELSE consents[j]]
    /\ UNCHANGED <<signerVars, signerLog, accessVars>>
    /\ UNCHANGED <<now, ticks, supabase, stores, inflight, history>>

\* The handler of a received request runs from its first line to its return.
consent_resume(k) ==
    /\ consents[k].session # 0
    /\ consents[k].status = 0
    /\ consent_body(consents[k].session, consents[k].action)
    /\ LET r == consent_submit_response(consents[k].session, consents[k].action)
       IN  consents' = [consents EXCEPT ![k].status = r.status,
                                        ![k].val = r.val]
    /\ UNCHANGED <<signerVars, signerLog, accessVars>>
    /\ UNCHANGED <<now, ticks, supabase, registered_clients, access_tokens,
                   inflight, created, logins, issued, race, refused>>

(***************************************************************************)
(* POST /token                                                             *)
(***************************************************************************)
\* A PKCE check that fails whenever a challenge was recorded.
PkceRejects_Always(auth_data, code_verifier) ==
    auth_data.code_challenge # ""

\* PKCE as the handler checks it: the check is made only when a challenge
\* was recorded and the request carries a non-empty code_verifier.
PkceRejects(auth_data, code_verifier) ==
    /\ auth_data.code_challenge # ""
    /\ code_verifier # None
    /\ S256(code_verifier) # auth_data.code_challenge

\* The next value of secrets.token_urlsafe for an access token.
NewToken == Cardinality(issued) + 1

\* The handler treating every grant_type it does not know as refresh_token.
token_response_AnyGrant(req) ==
    IF req.grant_type = "authorization_code"
    THEN IF req.code = 0 \/ req.code \notin DOMAIN authorization_codes
         THEN Response("token", 400, "invalid_grant", req.code, "", "", 0)
         ELSE IF now > authorization_codes[req.code].expires_at
         THEN Response("token", 400, "invalid_grant", req.code, "code_expired",
                       "", 0)
         ELSE IF PkceRejects(authorization_codes[req.code], req.code_verifier)
         THEN Response("token", 400, "invalid_grant", req.code, "pkce_failed",
                       "", 0)
         ELSE Response("token", 200, "", req.code, "", "", NewToken)
    ELSE Response("token", 200, "", 0, "", "", NewToken)

\* The response of the handler from the line after the request's fields are
\* known (line 379) to its return.
token_response(req) ==
    IF req.grant_type = "authorization_code"
    THEN IF req.code = 0 \/ req.code \notin DOMAIN authorization_codes
         THEN Response("token", 400, "invalid_grant", req.code, "", "", 0)
         ELSE IF now > authorization_codes[req.code].expires_at
         THEN Response("token", 400, "invalid_grant", req.code, "code_expired",
                       "", 0)
         ELSE IF PkceRejects(authorization_codes[req.code], req.code_verifier)
         THEN Response("token", 400, "invalid_grant", req.code, "pkce_failed",
                       "", 0)
         ELSE Response("token", 200, "", req.code, "", "", NewToken)
    ELSE IF req.grant_type = "refresh_token"
    THEN Response("token", 200, "", 0, "", "", NewToken)
    ELSE Response("token", 400, "unsupported_grant_type", 0, "", "", 0)

\* The handler without `del authorization_codes[code]` on success (line 418).
CodesAfterToken_NoDelete(req) ==
    LET r == token_response(req) IN
    IF req.grant_type = "authorization_code" /\ r.loc = "code_expired"
    THEN Del(authorization_codes, req.code)
    ELSE authorization_codes

\* The handler deleting the code on every answer that follows the lookup,
\* a PKCE refusal included.
CodesAfterToken_DeleteOnRefusal(req) ==
    LET r == token_response(req) IN
    IF req.grant_type # "authorization_code" THEN authorization_codes
    ELSE IF r.status = 200 \/ r.loc \in {"code_expired", "pkce_failed"}
    THEN Del(authorization_codes, req.code)
    ELSE authorization_codes

\* authorization_codes when the handler returns: an expired code is deleted,
\* a redeemed code is deleted.
CodesAfterToken(req) ==
    LET r == token_response(req) IN
    IF req.grant_type # "authorization_code" THEN authorization_codes
    ELSE IF r.status = 200 \/ r.loc = "code_expired"
    THEN Del(authorization_codes, req.code)
    ELSE authorization_codes

\* The entry the handler adds to access_tokens.
TokenEntry(req) ==
    IF req.grant_type = "authorization_code"
    THEN [client_id |-> req.client_id,
          scope |-> authorization_codes[req.code].scope,
          user_id |-> authorization_codes[req.code].user_id,
          user_email |-> authorization_codes[req.code].user_email,
          created_at |-> now,
          expires_at |-> now + TOKEN_EXPIRES_IN]
    ELSE [client_id |-> req.client_id,
          scope |-> "mcp:tools",
          created_at |-> now,
          expires_at |-> now + TOKEN_EXPIRES_IN]

\* Whether the request presented the verifier of the code's challenge.
PkceOf(req) ==
    IF authorization_codes[req.code].code_challenge = "" THEN "no_challenge"
    ELSE IF /\ req.code_verifier # None
            /\ S256(req.code_verifier) = authorization_codes[req.code].code_challenge
    THEN "verified"
    ELSE "unverified"

\* The JSON body of a 200 response (access_token, refresh_token, token_type,
\* expires_in, scope), and for the history: the grant, the time, the code
\* redeemed with its entry, and whether the code's challenge was verified.
TokenPair(req) ==
    [access_token |-> NewToken,
     refresh_token |-> NewToken,
     token_type |-> "Bearer",
     expires_in |-> TOKEN_EXPIRES_IN,
     scope |-> TokenEntry(req).scope,
     grant |-> req.grant_type,
     at |-> now,
     code |-> req.code,
     auth |-> IF req.grant_type = "authorization_code"
              THEN <<authorization_codes[req.code]>> ELSE <<>>,
     pkce |-> IF req.grant_type = "authorization_code"
              THEN PkceOf(req) ELSE "no_challenge"]

\* The handler from line 379 to its return: it has no suspension point.
token_body(req) ==
    LET r == token_response(req) IN
    /\ authorization_codes' = CodesAfterToken(req)
    /\ refused' = IF r.loc = "pkce_failed"
                  THEN refused \cup {req.code} ELSE refused
    /\ IF r.status = 200
       THEN /\ Cardinality(issued) < MaxTokens
            /\ access_tokens' = Put(access_tokens, r.val, TokenEntry(req))
            /\ issued' = issued \cup {TokenPair(req)}
            /\ redeemed' = IF req.grant_type = "authorization_code"
                           THEN [redeemed EXCEPT ![req.code] = @ + 1]
                           ELSE redeemed
       ELSE UNCHANGED <<access_tokens, issued, redeemed>>

\* A form-encoded request: FastAPI has parsed the form when the handler starts.
token_form(req) ==
    /\ req.body = "form"
    /\ token_body(req)
    /\ UNCHANGED <<signerVars, signerLog, accessVars>>
    /\ UNCHANGED <<now, ticks, supabase, registered_clients,
                   pending_authorizations, authenticated_sessions, inflight,
                   consents,
                   created, logins, minted, race>>

\* Two requests that name the same code, which is in the store and has not
\* expired.
SameValidCode(req1, req2) ==
    /\ req1.grant_type = "authorization_code"
    /\ req2.grant_type = "authorization_code"
    /\ req1.code = req2.code
    /\ req1.code \in DOMAIN authorization_codes
    /\ now <= authorization_codes[req1.code].expires_at

\* A request without grant_type in the form: the handler suspends in
\* `await request.json()` (line 368).
token_json_await(k, req) ==
    /\ req.body \in {"json", "bad"}
    /\ inflight[k] = NoRequest
    /\ inflight' = [inflight EXCEPT ![k] = req]
    /\ race' = [j \in DOMAIN race |->
                  IF \E k2 \in DOMAIN inflight \ {k} :
                        /\ j \in {k, k2}
                        /\ SameValidCode(req, inflight[k2])
                  THEN [code |-> req.code, status |-> 0, error |-> ""]
                  ELSE IF j = k THEN NoRace ELSE race[j]]
    /\ UNCHANGED <<signerVars, signerLog, accessVars>>
    /\ UNCHANGED <<now, ticks, supabase, stores, consents, created, logins,
                   minted, redeemed, issued, refused>>

\* The response once request.json() has returned or raised.
token_json_response(req) ==
    IF req.body = "bad"
    THEN Response("token", 400, "invalid_request", 0, "", "", 0)
    ELSE token_response(req)

\* request.json() returns or raises, and the handler runs to its return.
token_json_resume(k) ==
    /\ inflight[k] # NoRequest
    /\ inflight' = [inflight EXCEPT ![k] = NoRequest]
    /\ IF inflight[k].body = "bad"
       THEN UNCHANGED <<authorization_codes, access_tokens, redeemed, issued,
                        refused>>
       ELSE token_body(inflight[k])
    /\ race' = IF race[k].code # 0 /\ race[k].status = 0
               THEN [race EXCEPT ![k] =
                        [code |-> race[k].code,
                         status |-> token_json_response(inflight[k]).status,
                         error |-> token_json_response(inflight[k]).error]]
               ELSE race
    /\ UNCHANGED <<signerVars, signerLog, accessVars>>
    /\ UNCHANGED <<now, ticks, supabase, registered_clients,
                   pending_authorizations, authenticated_sessions, consents,
                   created, logins, minted>>

\* The requests a client can send to POST /token.
TokenRequests ==
    {TokenRequest(b, "authorization_code", c, cid, v, None) :
        b \in {"form", "json"}, c \in CodeNames, cid \in ClientIds,
        v \in Verifiers \cup {None}}
    \cup {TokenRequest(b, "refresh_token", 0, "c1", None, rt) :
        b \in {"form", "json"}, rt \in {None, "rt"}}
    \cup {TokenRequest(b, "password", c, "c1", None, None) :
        b \in {"form", "json"}, c \in CodeNames}
    \cup {TokenRequest("json", None, 0, "c1", None, None),
          TokenRequest("bad", None, 0, "c1", None, None)}

\* The requests the model suspends in request.json().
JsonRequests ==
    {req \in TokenRequests :
        /\ req.body # "form"
        /\ req.client_id = "c1"
        /\ req.grant_type = "authorization_code" => req.code \in DOMAIN minted
        /\ req.code_verifier \in {None, "v1"}
        /\ req.grant_type \in {"authorization_code", None}}

(***************************************************************************)
(* The Credential Signer (oauth/jwt_utils.py)                              *)
(***************************************************************************)
\* A generator that returns the same value at every call.
GeneratedSecret_Fixed(n) == "k_gen1"

\* The n-th value of secrets.token_urlsafe(64).
GeneratedSecret(n) ==
    CASE n = 0 -> "k_gen1"
      [] n = 1 -> "k_gen2"
      [] n = 2 -> "k_gen3"
      [] n = 3 -> "k_gen4"
      [] OTHER -> "k_gen5"

\* SECRET_FILE.read_text().strip() is non-empty.
FileHasSecret == secret_file # None /\ secret_file # ""

\* _get_or_create_secret without the read of the secret file.
get_or_create_secret_NoFile ==
    IF jwt_secret # "" THEN jwt_secret
    ELSE IF env_secret # "" THEN env_secret
    ELSE GeneratedSecret(gens)

\* _get_or_create_secret reading the secret file before the environment.
get_or_create_secret_FileFirst ==
    IF jwt_secret # "" THEN jwt_secret
    ELSE IF FileHasSecret THEN secret_file
    ELSE IF env_secret # "" THEN env_secret
    ELSE GeneratedSecret(gens)

\* The value _get_or_create_secret returns: the cached secret, else the
\* environment's, else the file's when it is non-empty, else a new one.
get_or_create_secret ==
    IF jwt_secret # "" THEN jwt_secret
    ELSE IF env_secret # "" THEN env_secret
    ELSE IF FileHasSecret THEN secret_file
    ELSE GeneratedSecret(gens)

\* What a call that found no cached secret did: the secret it returned, the
\* override and the file it found, the file it left, and whether it
\* generated the secret.
Resolution(secret, env, file_before, file_after, generated) ==
    [secret |-> secret, env |-> env, file_before |-> file_before,
     file_after |-> file_after, generated |-> generated]
NoResolution == Resolution("", "", None, None, FALSE)

\* The signer's state after that call: the secret is cached; a new secret is
\* written to the file when the file can be written (an IOError of the write
\* is logged and swallowed).
SecretResolved ==
    LET generates == jwt_secret = "" /\ env_secret = "" /\ ~FileHasSecret
        written == IF generates /\ file_writable
                   THEN get_or_create_secret ELSE secret_file
    IN
    /\ jwt_secret' = get_or_create_secret
    /\ gens' = IF generates THEN gens + 1 ELSE gens
    /\ secret_file' = written
    /\ first' = IF jwt_secret = ""
                THEN Resolution(get_or_create_secret, env_secret, secret_file,
                                written, generates)
                ELSE first
    /\ UNCHANGED <<env_secret, file_writable, restarts, prev>>

\* The claims of a token.  A claim that is absent is None; an absent exp or
\* iat is NoTime.
NoTime == 0 - 1
Payload(sub, email, client_id, scope, iss, iat, exp, type) ==
    [sub |-> sub, email |-> email, client_id |-> client_id, scope |-> scope,
     iss |-> iss, iat |-> iat, exp |-> exp, type |-> type]
\* the invalid sentinel (Python's None) of the verify functions
NoPayload == Payload(None, None, None, None, None, NoTime, NoTime, None)

\* A token on the wire: an HS256 JWT of a payload signed with a key, or a
\* string that is not a JWT, such as a value of secrets.token_urlsafe(32).
Jwt(payload, key) == [kind |-> "jwt", n |-> 0, payload |-> payload, key |-> key]
OpaqueToken(n) == [kind |-> "opaque", n |-> n, payload |-> NoPayload, key |-> ""]

create_access_token(user_id, user_email, client_id, scope, issuer, expires_in) ==
    Jwt(Payload(user_id, user_email, client_id, scope, issuer, now,
                now + expires_in, "access"),
        get_or_create_secret)

create_refresh_token(user_id, user_email, client_id, scope, issuer, expires_in) ==
    Jwt(Payload(user_id, user_email, client_id, scope, issuer, now,
                now + expires_in, "refresh"),
        get_or_create_secret)

\* What jwt.decode did: it returned a payload, or raised.
Decoded(raises, payload) == [raises |-> raises, payload |-> payload]

\* PyJWT's exceptions for a token that does not decode; each is a subclass
\* of jwt.InvalidTokenError.
InvalidTokenErrors ==
    {"DecodeError", "InvalidSignatureError", "MissingRequiredClaimError",
     "ExpiredSignatureError", "InvalidIssuerError"}

\* jwt.decode where the expiry is not compared with the clock.
jwt_decode_NoExpiry(token, secret, issuer) ==
    IF token.kind # "jwt" THEN Decoded("DecodeError", NoPayload)
    ELSE IF token.key # secret THEN Decoded("InvalidSignatureError", NoPayload)
    ELSE IF token.payload.exp = NoTime \/ token.payload.sub = None
         THEN Decoded("MissingRequiredClaimError", NoPayload)
    ELSE IF issuer # None /\ token.payload.iss # issuer
         THEN Decoded("InvalidIssuerError", NoPayload)
    ELSE Decoded("", token.payload)

\* jwt.decode(token, secret, algorithms=["HS256"],
\*            options={"require": ["exp", "sub"]}, issuer=issuer):
\* a string that is not a JWT raises DecodeError, a signature of another key
\* InvalidSignatureError, an absent exp or sub MissingRequiredClaimError,
\* exp <= now ExpiredSignatureError, another iss InvalidIssuerError.
\* issuer None: the keyword is not passed and iss is not checked.
jwt_decode(token, secret, issuer) ==
    IF token.kind # "jwt" THEN Decoded("DecodeError", NoPayload)
    ELSE IF token.key # secret THEN Decoded("InvalidSignatureError", NoPayload)
    ELSE IF token.payload.exp = NoTime \/ token.payload.sub = None
         THEN Decoded("MissingRequiredClaimError", NoPayload)
    ELSE IF token.payload.exp <= now
         THEN Decoded("ExpiredSignatureError", NoPayload)
    ELSE IF issuer # None /\ token.payload.iss # issuer
         THEN Decoded("InvalidIssuerError", NoPayload)
    ELSE Decoded("", token.payload)

\* The except clauses of the verify functions: jwt.ExpiredSignatureError and
\* jwt.InvalidTokenError, which covers its subclasses.
CaughtErrors == {"ExpiredSignatureError"} \cup InvalidTokenErrors

\* Stands for an exception that leaves a verify function.
Uncaught == Payload(None, None, None, None, None, NoTime, NoTime, "uncaught")

\* verify_access_token with only the first except clause.
verify_access_token_ExpiredOnly(token, issuer) ==
    LET decoded == jwt_decode(token, get_or_create_secret, issuer) IN
    IF decoded.raises = "ExpiredSignatureError" THEN NoPayload
    ELSE IF decoded.raises # "" THEN Uncaught
    ELSE IF decoded.payload.type # "access" THEN NoPayload
    ELSE decoded.payload

\* verify_access_token looking the token up in the in-memory token store.
verify_access_token_Stored(token, issuer) ==
    LET decoded == jwt_decode(token, get_or_create_secret, issuer) IN
    IF decoded.raises \in CaughtErrors THEN NoPayload
    ELSE IF decoded.raises # "" THEN Uncaught
    ELSE IF decoded.payload.type # "access" THEN NoPayload
    ELSE IF token \notin DOMAIN access_tokens THEN NoPayload
    ELSE decoded.payload

verify_access_token(token, issuer) ==
    LET decoded == jwt_decode(token, get_or_create_secret, issuer) IN
    IF decoded.raises \in CaughtErrors THEN NoPayload
    ELSE IF decoded.raises # "" THEN Uncaught
    ELSE IF decoded.payload.type # "access" THEN NoPayload
    ELSE decoded.payload

\* verify_refresh_token without the check of the type claim.
verify_refresh_token_AnyType(token, issuer) ==
    LET decoded == jwt_decode(token, get_or_create_secret, issuer) IN
    IF decoded.raises \in CaughtErrors THEN NoPayload
    ELSE IF decoded.raises # "" THEN Uncaught
    ELSE decoded.payload

verify_refresh_token(token, issuer) ==
    LET decoded == jwt_decode(token, get_or_create_secret, issuer) IN
    IF decoded.raises \in CaughtErrors THEN NoPayload
    ELSE IF decoded.raises # "" THEN Uncaught
    ELSE IF decoded.payload.type # "refresh" THEN NoPayload
    ELSE decoded.payload

(***************************************************************************)
(* Access control of the protected entry points: the middleware in front   *)
(* of /mcp (oauth/middleware.py) and the legacy /sse and /message          *)
(* endpoints (sse.py).                                                     *)
(***************************************************************************)
\* get_server_url(), and the server_url given to init_sse_routes: both
\* entry points verify against the same issuer, and sse._local_config is the
\* configuration the middleware loads.
server_url == "https://srv"

\* The owner's user id in the local configuration; None when not configured.
ConfigUserIds == {None, "u1"}
\* The resource name in the local configuration; None when not configured.
ConfigRobotNames == {None, "r1"}

\* What the POST to {ROBOTMCP_CLOUD_URL}/api/check-access does.
RaisingOutcomes == {"timeout", "connect_error", "not_json", "not_object"}
Outcomes == RaisingOutcomes
            \cup {"status_500", "no_allowed", "allowed_false", "allowed_true"}
\* the collaborator was not called
NotCalled == "not_called"

\* check_shared_access answering True from its exception handler.
check_shared_access_FailOpen(outcome) ==
    IF outcome \in RaisingOutcomes THEN TRUE
    ELSE IF outcome = "status_500" THEN FALSE
    ELSE IF outcome = "no_allowed" THEN FALSE
    ELSE outcome = "allowed_true"

\* check_shared_access: a timeout (5 s), a transport error, a body that is
\* not JSON (response.json() raises) and a JSON body that is not an object
\* (data.get raises) end in `except Exception`; a status other than 200 falls
\* through to `return False`; a 200 object gives data.get("allowed", False).
check_shared_access(outcome) ==
    IF outcome \in RaisingOutcomes THEN FALSE
    ELSE IF outcome = "status_500" THEN FALSE
    ELSE IF outcome = "no_allowed" THEN FALSE
    ELSE outcome = "allowed_true"

\* An Authorization header: absent, of another scheme, or "Bearer " + token.
Header(scheme, token) == [scheme |-> scheme, token |-> token]
NoHeader == Header("", OpaqueToken(0))
BasicHeader == Header("Basic", OpaqueToken(0))
Bearer(token) == Header("Bearer", token)

\* The WWW-Authenticate header of a 401 response:
\* Bearer resource_metadata="{server_url}/.well-known/oauth-protected-resource";
\* <<>> when the response has no such header.
ResourceMetadata ==
    <<"Bearer resource_metadata", server_url,
      "/.well-known/oauth-protected-resource">>
NoWwwAuthenticate == <<>>

\* The answer to a protected request: status and error of the response,
\* its WWW-Authenticate header, whether the request went on to the
\* protected handler, the (robot_name, user_id) pair the collaborator was
\* asked about (<<>> when it was not called), and the verified payload.
Answer(status, error, www_authenticate, passed, asked, token_data) ==
    [status |-> status, error |-> error, www_authenticate |-> www_authenticate,
     passed |-> passed, asked |-> asked, token_data |-> token_data]
unauthorized_response ==
    Answer(401, "unauthorized", ResourceMetadata, FALSE, <<>>, NoPayload)
forbidden_response(asked, token_data) ==
    Answer(403, "forbidden", NoWwwAuthenticate, FALSE, asked, token_data)

\* The middleware asking the collaborator before it compares the subject
\* with the owner.
dispatch_response_AskFirst(header, outcome) ==
    IF header.scheme # "Bearer" THEN unauthorized_response
    ELSE LET token_data == verify_access_token(header.token, server_url)
             creator_user_id == config.user_id
             connecting_user_id == token_data.sub
             asked == <<config.robot_name, connecting_user_id>>
         IN  IF token_data = NoPayload THEN unauthorized_response
             ELSE IF config.robot_name # None
             THEN IF check_shared_access(outcome)
                     \/ connecting_user_id = creator_user_id
                  THEN Answer(200, "", NoWwwAuthenticate, TRUE, asked, token_data)
                  ELSE forbidden_response(asked, token_data)
             ELSE IF connecting_user_id = creator_user_id
             THEN Answer(200, "", NoWwwAuthenticate, TRUE, <<>>, token_data)
             ELSE forbidden_response(<<>>, token_data)

\* MCPOAuthMiddleware.dispatch; outcome is what the collaborator does if it
\* is called.
dispatch_response(header, outcome) ==
    IF header.scheme # "Bearer" THEN unauthorized_response
    ELSE LET token_data == verify_access_token(header.token, server_url)
             creator_user_id == config.user_id
             connecting_user_id == token_data.sub
             asked == <<config.robot_name, connecting_user_id>>
         IN  IF token_data = NoPayload THEN unauthorized_response
             ELSE IF connecting_user_id = creator_user_id
             THEN Answer(200, "", NoWwwAuthenticate, TRUE, <<>>, token_data)
             ELSE IF config.robot_name # None
             THEN IF check_shared_access(outcome)
                  THEN Answer(200, "", NoWwwAuthenticate, TRUE, asked, token_data)
                  ELSE forbidden_response(asked, token_data)
             ELSE forbidden_response(<<>>, token_data)

\* check_authorization allowing a non-owner when no robot_name is configured.
check_authorization_NoResource(token_data, outcome) ==
    LET creator_user_id == config.user_id
        connecting_user_id == token_data.sub
        robot_name == config.robot_name
    IN  IF creator_user_id = None
        THEN [allowed |-> TRUE, asked |-> <<>>]
        ELSE IF connecting_user_id = creator_user_id
        THEN [allowed |-> TRUE, asked |-> <<>>]
        ELSE IF robot_name # None
        THEN [allowed |-> check_shared_access(outcome),
              asked |-> <<robot_name, connecting_user_id>>]
        ELSE [allowed |-> TRUE, asked |-> <<>>]

\* sse.check_authorization: whether it returns True (it raises
\* HTTPException(403) otherwise), and the pair the collaborator was asked
\* about.
check_authorization(token_data, outcome) ==
    LET creator_user_id == config.user_id
        connecting_user_id == token_data.sub
        robot_name == config.robot_name
    IN  IF creator_user_id = None
        THEN [allowed |-> TRUE, asked |-> <<>>]
        ELSE IF connecting_user_id = creator_user_id
        THEN [allowed |-> TRUE, asked |-> <<>>]
        ELSE IF robot_name # None
        THEN [allowed |-> check_shared_access(outcome),
              asked |-> <<robot_name, connecting_user_id>>]
        ELSE [allowed |-> FALSE, asked |-> <<>>]

\* sse_endpoint up to the point where the SSE connection is established.
sse_endpoint_response(header, outcome) ==
    IF header.scheme # "Bearer" THEN unauthorized_response
    ELSE LET token_data == verify_access_token(header.token, server_url)
             authz == check_authorization(token_data, outcome)
         IN  IF token_data = NoPayload THEN unauthorized_response
             ELSE IF ~authz.allowed
             THEN forbidden_response(authz.asked, token_data)
             ELSE Answer(200, "", NoWwwAuthenticate, TRUE, authz.asked, token_data)

\* message_endpoint without the `if not token_data` check (lines 145-147).
message_endpoint_response_NoVerify(header, outcome) ==
    IF header.scheme # "Bearer" THEN unauthorized_response
    ELSE LET token_data == verify_access_token(header.token, server_url)
             authz == check_authorization(token_data, outcome)
         IN  IF ~authz.allowed
             THEN forbidden_response(authz.asked, token_data)
             ELSE Answer(200, "", NoWwwAuthenticate, TRUE, authz.asked, token_data)

\* message_endpoint up to the point where the message is handed on.
message_endpoint_response(header, outcome) ==
    IF header.scheme # "Bearer" THEN unauthorized_response
    ELSE LET token_data == verify_access_token(header.token, server_url)
             authz == check_authorization(token_data, outcome)
         IN  IF token_data = NoPayload THEN unauthorized_response
             ELSE IF ~authz.allowed
             THEN forbidden_response(authz.asked, token_data)
             ELSE Answer(200, "", NoWwwAuthenticate, TRUE, authz.asked, token_data)

\* The protected request served last.
Served(ep, header, outcome, answer) ==
    [ep |-> ep, header |-> header, outcome |-> outcome, answer |-> answer]
NoServed ==
    Served("", NoHeader, NotCalled,
           Answer(0, "", NoWwwAuthenticate, FALSE, <<>>, NoPayload))

\* The outcomes the collaborator can have for a request that is answered so
\* when the collaborator does not answer: it has one exactly when the handler
\* calls it.
OutcomesFor(answer) ==
    IF answer.asked = <<>> THEN {NotCalled} ELSE Outcomes

\* A protected request is served; verify_access_token resolves the secret.
\* The handler suspends in `await check_shared_access`, and after it reads
\* only its own locals, so the request is one step whose outcome is the
\* collaborator's.
Serve(ep, header, outcome, answer) ==
    /\ last' = Served(ep, header, outcome, answer)
    /\ IF header.scheme = "Bearer"
       THEN SecretResolved
       ELSE UNCHANGED signerVars
    /\ UNCHANGED <<now, ticks, flowVars, signerLog, config>>

dispatch(header) ==
    \E outcome \in OutcomesFor(dispatch_response(header, "timeout")) :
        Serve("mcp", header, outcome, dispatch_response(header, outcome))

sse_endpoint(header) ==
    \E outcome \in OutcomesFor(sse_endpoint_response(header, "timeout")) :
        Serve("sse", header, outcome, sse_endpoint_response(header, outcome))

message_endpoint(header) ==
    \E outcome \in OutcomesFor(message_endpoint_response(header, "timeout")) :
        Serve("message", header, outcome,
              message_endpoint_response(header, outcome))

\* Tokens a client may present: signed with one of the keys the server can
\* hold, for either user, well-formed or with one defect (a refresh token,
\* another issuer, an exp that passes at time 1, no exp, no sub).
SignedToken(sub, iss, exp, type, key) ==
    Jwt(Payload(sub, IF sub = None THEN None ELSE EmailOf(sub), "c1",
                "mcp:tools", iss, 0, exp, type), key)
ServerKeys == {"k_env", "k_file", GeneratedSecret(0)}
PresentedTokens ==
    {SignedToken(u, server_url, ACCESS_TOKEN_EXPIRE_SECONDS, "access", k) :
        u \in Users, k \in ServerKeys}
    \cup {SignedToken("u2", server_url, ACCESS_TOKEN_EXPIRE_SECONDS, "refresh", k) :
             k \in ServerKeys}
    \cup {SignedToken("u2", "https://other", ACCESS_TOKEN_EXPIRE_SECONDS, "access", k) :
             k \in ServerKeys}
    \cup {SignedToken("u1", server_url, 1, "access", k) : k \in ServerKeys}
    \cup {SignedToken("u1", server_url, NoTime, "access", k) : k \in ServerKeys}
    \cup {SignedToken(None, server_url, ACCESS_TOKEN_EXPIRE_SECONDS, "access", k) :
             k \in ServerKeys}
    \cup {OpaqueToken(1)}
Headers == {NoHeader, BasicHeader} \cup {Bearer(t) : t \in PresentedTokens}

(***************************************************************************)
(* The signer's routines called on their own, across process restarts.     *)
(***************************************************************************)
\* A token the signer created, the process that created it, and how that
\* process resolved the secret.
Signing(token, life, resolution) ==
    [token |-> token, life |-> life, resolution |-> resolution]

\* A verification: the routine, its arguments and what it returned.
Check(type, token, issuer, result) ==
    [type |-> type, token |-> token, issuer |-> issuer, result |-> result]
NoCheck == Check("", OpaqueToken(0), None, NoPayload)

\* The resolution of this process once the pending call has returned.
ResolutionAfter ==
    IF jwt_secret # "" THEN first
    ELSE Resolution(get_or_create_secret, env_secret, secret_file,
                    IF env_secret = "" /\ ~FileHasSecret /\ file_writable
                    THEN get_or_create_secret ELSE secret_file,
                    env_secret = "" /\ ~FileHasSecret)

\* create_access_token(user, email, "c1", "mcp:tools", issuer) with the
\* default lifetime.
AccessTokenCreated(user, issuer) ==
    /\ Cardinality(signed) < MaxSigned
    /\ signed' = signed \cup
         {Signing(create_access_token(user, EmailOf(user), "c1", "mcp:tools",
                                      issuer, ACCESS_TOKEN_EXPIRE_SECONDS),
                  restarts, ResolutionAfter)}
    /\ SecretResolved
    /\ UNCHANGED <<now, ticks, flowVars, checked, accessVars>>

\* create_refresh_token(user, email, "c1", "mcp:tools", issuer) with the
\* default lifetime.
RefreshTokenCreated(user, issuer) ==
    /\ Cardinality(signed) < MaxSigned
    /\ signed' = signed \cup
         {Signing(create_refresh_token(user, EmailOf(user), "c1", "mcp:tools",
                                       issuer, REFRESH_TOKEN_EXPIRE_SECONDS),
                  restarts, ResolutionAfter)}
    /\ SecretResolved
    /\ UNCHANGED <<now, ticks, flowVars, checked, accessVars>>

\* verify_access_token(token, issuer)
AccessTokenVerified(token, issuer) ==
    /\ checked' = Check("access", token, issuer,
                        verify_access_token(token, issuer))
    /\ SecretResolved
    /\ UNCHANGED <<now, ticks, flowVars, signed, accessVars>>

\* verify_refresh_token(token, issuer)
RefreshTokenVerified(token, issuer) ==
    /\ checked' = Check("refresh", token, issuer,
                        verify_refresh_token(token, issuer))
    /\ SecretResolved
    /\ UNCHANGED <<now, ticks, flowVars, signed, accessVars>>

\* The values JWT_SECRET can have in a process's environment.
EnvSecrets == {"", "k_env"}

\* The process ends and a new one starts: the module globals are initial
\* again (no cached secret, empty stores), the file stays, and the new
\* process has its own environment.
Restart(env) ==
    /\ restarts < MaxRestarts
    /\ restarts' = restarts + 1
    /\ jwt_secret' = ""
    /\ env_secret' = env
    /\ prev' = IF first # NoResolution THEN first ELSE prev
    /\ first' = NoResolution
    /\ registered_clients' = Empty
    /\ authorization_codes' = Empty
    /\ access_tokens' = Empty
    /\ pending_authorizations' = Empty
    /\ authenticated_sessions' = Empty
    /\ inflight' = [k \in DOMAIN inflight |-> NoRequest]
    /\ consents' = [k \in DOMAIN consents |-> NoConsent]
    /\ UNCHANGED <<now, ticks, supabase, history, secret_file, file_writable,
                   gens, signerLog, accessVars>>

\* The secret file is deleted from outside the program.
SecretFileRemoved ==
    /\ secret_file # None
    /\ secret_file' = None
    /\ UNCHANGED <<now, ticks, flowVars, jwt_secret, env_secret, file_writable,
                   gens, restarts, first, prev, signerLog, accessVars>>

\* The clock advances of the signer's runs: they reach one second before
\* and one second after the expiry of a token of either kind.
SignerTicks ==
    {2, ACCESS_TOKEN_EXPIRE_SECONDS - 1, REFRESH_TOKEN_EXPIRE_SECONDS - 1}

\* The issuers a caller can expect.
Issuers == {server_url, "https://other"}

\* Strings given to the verify functions that the signer did not create:
\* not a JWT, and a JWT signed with a key the server never holds.
ForeignTokens ==
    {OpaqueToken(1),
     SignedToken("u1", server_url, ACCESS_TOKEN_EXPIRE_SECONDS, "access", "k_bad")}
VerifiedTokens == {t.token : t \in signed} \cup ForeignTokens

\* A call of _get_or_create_secret on its own.
SecretRequested ==
    /\ SecretResolved
    /\ UNCHANGED <<now, ticks, flowVars, signerLog, accessVars>>

\* The state after the modules are imported: nothing is cached and no
\* protected request was served.
SignerInit ==
    /\ jwt_secret = ""
    /\ gens = 0
    /\ restarts = 0
    /\ first = NoResolution
    /\ prev = NoResolution
    /\ signed = {}
    /\ checked = NoCheck
AccessInit ==
    /\ now = 0
    /\ ticks = 0
    /\ config \in [user_id : ConfigUserIds, robot_name : ConfigRobotNames]
    /\ env_secret \in {"", "k_env"}
    /\ secret_file \in {None, "k_file"}
    /\ file_writable = TRUE
    /\ SignerInit
    /\ last = NoServed

AccessNext ==
    \/ \E d \in TickSizes : Tick(d)
    \/ \E h \in Headers : dispatch(h)
    \/ \E h \in Headers : sse_endpoint(h)
    \/ \E h \in Headers : message_endpoint(h)

FlowNext ==
    \/ \E d \in TickSizes : Tick(d)
    \/ \E rt \in ResponseTypes, a \in AuthorizeInputs :
            authorize(rt, a[1], a[2], a[3], a[4], a[5], "S256")
    \/ \E s \in SessionNames, r \in {"", "1"} : login_page(s, r)
    \/ \E s \in SessionNames, e \in Emails, o \in {"ok", "reject", "raise"} :
            login_submit(s, e, "secret1", o)
    \/ \E s \in SessionNames : signup_page(s)
    \/ \E s \in SessionNames, p \in Passwords, c \in Passwords,
          o \in {"ok", "reject", "raise", "raise_registered"} :
            /\ (o # "ok") => (p = "secret1" /\ c = p)
            /\ signup_submit(s, "u1@x", p, c, o)
    \/ \E s \in SessionNames : consent_page(s)
    \/ \E s \in SessionNames, a \in ConsentActions : consent_submit(s, a)
    \/ \E req \in TokenRequests : token_form(req)

\* Requests to POST /token interleaved at the handler's suspension point.
ConcNext ==
    \/ \E d \in TickSizes : Tick(d)
    \/ \E a \in AuthorizeInputs :
            authorize("code", a[1], a[2], a[3], a[4], a[5], "S256")
    \/ \E s \in created : login_submit(s, "u1@x", "secret1", "ok")
    \/ \E s \in created : consent_submit(s, "allow")
    \/ \E k \in DOMAIN inflight, req \in JsonRequests : token_json_await(k, req)
    \/ \E k \in DOMAIN inflight : token_json_resume(k)

\* A fresh installation: no owner is configured, no secret exists, and no
\* protected request is made.
FreshInstall ==
    /\ now = 0
    /\ ticks = 0
    /\ config = [user_id |-> None, robot_name |-> None]
    /\ env_secret = ""
    /\ secret_file = None
    /\ file_writable = TRUE
    /\ SignerInit
    /\ last = NoServed

\* The requests of the authorization flow, handled one at a time.
Init == FlowInit /\ FreshInstall
Next == FlowNext
Spec == Init /\ [][Next]_vars

\* The same, with POST /token requests in flight concurrently.
SpecConc == Init /\ [][ConcNext]_vars

\* Requests to the protected entry points, under every local configuration.
InitAccess == AccessInit /\ FlowInit
SpecAccess == InitAccess /\ [][AccessNext]_vars

\* The client_name a POST /register body carries; None when the body has
\* none or is not JSON.
ClientNames == {None, "app"}

\* Registrations among the requests of the authorization flow.
InitClients ==
    /\ FreshInstall
    /\ FlowInit
    /\ supabase = TRUE

ClientsNext ==
    \/ \E d \in TickSizes : Tick(d)
    \/ \E n \in ClientNames \cup {NotAnObject} : register_client(n)
    \/ \E rt \in ResponseTypes :
            authorize(rt, "c1", "https://cb", "mcp:tools", "xyz", S256("v1"), "S256")
    \/ \E s \in created : login_page(s, "")
    \/ \E s \in created, o \in {"ok", "reject"} :
            login_submit(s, "u1@x", "secret1", o)
    \/ \E s \in created : signup_page(s)
    \/ \E s \in created : signup_submit(s, "u1@x", "secret1", "secret1", "ok")
    \/ \E s \in created : consent_page(s)
    \/ \E s \in created, a \in {"allow", "deny"} : consent_submit(s, a)
    \/ \E req \in TokenRequests :
            /\ req.client_id = "c1"
            /\ req.code_verifier \in {None, "v1"}
            /\ token_form(req)

SpecClients == InitClients /\ [][ClientsNext]_vars

\* POST /consent requests received while another one waits for its handler.
InitConsent ==
    /\ FreshInstall
    /\ FlowInit

ConsentNext ==
    \/ \E d \in TickSizes : Tick(d)
    \/ \E a \in AuthorizeInputs :
            authorize("code", a[1], a[2], a[3], a[4], a[5], "S256")
    \/ \E s \in created : login_page(s, "")
    \/ \E s \in created : login_submit(s, "u1@x", "secret1", "ok")
    \/ \E k \in DOMAIN consents, s \in created \cup {-1}, a \in ConsentActions :
            consent_await(k, s, a)
    \/ \E k \in DOMAIN consents : consent_resume(k)

SpecConsent == InitConsent /\ [][ConsentNext]_vars

\* The signer on its own: with or without an override, with no file, an
\* empty file or a file holding a secret, writable or not.  A restarted
\* process has the environment of the one before.
InitSigner ==
    /\ now = 0
    /\ ticks = 0
    /\ config = [user_id |-> None, robot_name |-> None]
    /\ env_secret \in EnvSecrets
    /\ secret_file \in {None, "", "k_file"}
    /\ file_writable \in BOOLEAN
    /\ SignerInit
    /\ last = NoServed
    /\ FlowInit
    /\ supabase = TRUE

SignerNext ==
    \/ \E d \in SignerTicks : Tick(d)
    \/ \E u \in {"u1"} : AccessTokenCreated(u, server_url)
    \/ \E u \in {"u1"} : RefreshTokenCreated(u, server_url)
    \/ \E t \in VerifiedTokens, i \in Issuers : AccessTokenVerified(t, i)
    \/ \E t \in VerifiedTokens, i \in Issuers : RefreshTokenVerified(t, i)
    \/ Restart(env_secret)

SpecSigner == InitSigner /\ [][SignerNext]_vars

\* The secret's resolution on its own: calls, restarts under either
\* environment, and the file deleted from outside.
InitSecret == InitSigner
SecretNext ==
    \/ SecretRequested
    \/ \E e \in EnvSecrets : Restart(e)
    \/ SecretFileRemoved

SpecSecret == InitSecret /\ [][SecretNext]_vars

(***************************************************************************)
(* Properties                                                              *)
(***************************************************************************)
\* The authorization_code requests that name code c.
RequestsNaming(c) ==
    {req \in TokenRequests : req.grant_type = "authorization_code" /\ req.code = c}

\* C1: a minted code is redeemed at most once; once redeemed it is absent from
\* authorization_codes and every request naming it is answered 400
\* invalid_grant.
C1_SingleUse ==
    \A c \in DOMAIN minted :
        /\ redeemed[c] <= 1
        /\ redeemed[c] = 1 =>
             /\ c \notin DOMAIN authorization_codes
             /\ \A req \in RequestsNaming(c) :
                    /\ token_json_response(req).status = 400
                    /\ token_json_response(req).error = "invalid_grant"

C1_Witness ==
    \E c \in DOMAIN minted : redeemed[c] = 1 /\ \E p \in issued : p.code = c

\* C2: a token pair is issued for a code that recorded a code_challenge only
\* to a request whose code_verifier hashes to that challenge; and while such
\* a code is in the store, a request without that verifier is answered
\* invalid_grant.
C2_PkceRequired ==
    /\ \A p \in issued : p.pkce # "unverified"
    /\ \A c \in DOMAIN authorization_codes :
          authorization_codes[c].code_challenge # "" =>
              \A req \in RequestsNaming(c) :
                  (\/ req.code_verifier = None
                   \/ S256(req.code_verifier) # authorization_codes[c].code_challenge)
                  => token_response(req).error = "invalid_grant"

\* C3: every code in authorization_codes carries a non-null user_id and
\* e-mail, those of a login accepted under the session it was minted for.
C3_CodeHasIdentity ==
    \A c \in DOMAIN authorization_codes :
        /\ authorization_codes[c].user_id # None
        /\ authorization_codes[c].user_email # None
        /\ \E l \in logins :
              /\ l.session = minted[c].session
              /\ l.user_id = authorization_codes[c].user_id
              /\ l.email = authorization_codes[c].user_email

\* A session id that is absent from pending_authorizations, or expired.
AbsentOrExpired(s) ==
    \/ s \notin DOMAIN pending_authorizations
    \/ now > pending_authorizations[s].expires_at

\* C6: for a session id that is absent or expired, GET and POST of /login,
\* /signup and /consent answer 400, and no code is minted for a session after
\* its expires_at.
C6_ExpiredSessionRejected ==
    /\ \A s \in SessionNames :
          AbsentOrExpired(s) =>
              /\ login_page_response(s, "").status = 400
              /\ signup_page_response(s).status = 400
              /\ consent_page_response(s).status = 400
              /\ \A e \in Emails, o \in {"ok", "reject", "raise"} :
                     login_submit_response(s, e, "secret1", o).status = 400
              /\ \A p \in Passwords, o \in {"ok", "reject", "raise"} :
                     signup_submit_response(s, "u1@x", p, p, o).status = 400
              /\ \A a \in ConsentActions :
                     consent_submit_response(s, a).status = 400
    /\ \A c \in DOMAIN minted : minted[c].at <= minted[c].session_expires_at

\* The access token of a token pair as the client presents it.
PresentedAccessToken(p) == Bearer(OpaqueToken(p.access_token))

\* C4: while it has not expired, the access token returned for a redeemed
\* code is accepted by verify_access_token with the code's user_id, user_email
\* and scope as sub, email and scope, and no protected entry point answers it
\* 401.
C4_IssuedTokenVerifies ==
    \A p \in issued :
        (p.grant = "authorization_code" /\ now < p.at + p.expires_in) =>
            LET token_data == verify_access_token(OpaqueToken(p.access_token),
                                                  server_url)
            IN  /\ token_data # NoPayload
                /\ token_data.sub = p.auth[1].user_id
                /\ token_data.email = p.auth[1].user_email
                /\ token_data.scope = p.auth[1].scope
                /\ \A o \in Outcomes :
                      /\ dispatch_response(PresentedAccessToken(p), o).status # 401
                      /\ sse_endpoint_response(PresentedAccessToken(p), o).status # 401
                      /\ message_endpoint_response(PresentedAccessToken(p), o).status # 401

\* C5: of two requests that were in flight at once naming the same valid
\* code, at most one is answered with tokens, and once one is, the other is
\* answered 400 invalid_grant; every answer is a 200 or a 400 invalid_grant.
C5_ConcurrentRedemption ==
    \A k1 \in DOMAIN race, k2 \in DOMAIN race :
        (k1 # k2 /\ race[k1].code # 0 /\ race[k1].code = race[k2].code) =>
            /\ ~(race[k1].status = 200 /\ race[k2].status = 200)
            /\ race[k1].status \in {0, 200, 400}
            /\ race[k1].status = 400 => race[k1].error = "invalid_grant"
            /\ (race[k1].status = 200 /\ race[k2].status # 0) =>
                   /\ race[k2].status = 400
                   /\ race[k2].error = "invalid_grant"
                   /\ race[k1].code \notin DOMAIN authorization_codes

C5_Witness ==
    \E k1 \in DOMAIN race, k2 \in DOMAIN race :
        /\ k1 # k2
        /\ race[k1].code # 0
        /\ race[k1].code = race[k2].code
        /\ race[k1].status = 200
        /\ race[k2].status = 400

\* The last protected request carried a token that verified.
LastVerified == last.ep # "" /\ last.answer.token_data # NoPayload

\* C7: for every verified token and every answer of the collaborator, the
\* middleware lets the request pass exactly when check_authorization allows.
C7_SameDecision ==
    \A h \in Headers, o \in Outcomes :
        LET token_data == verify_access_token(h.token, server_url) IN
        (h.scheme = "Bearer" /\ token_data # NoPayload) =>
            (dispatch_response(h, o).passed
                <=> check_authorization(token_data, o).allowed)

\* C8: with no owner configured, the middleware lets every request with a
\* valid token pass, without a 403 and without calling the collaborator.
C8_OpenMode ==
    (config.user_id = None /\ LastVerified /\ last.ep = "mcp") =>
        /\ last.answer.passed
        /\ last.answer.status # 403
        /\ last.answer.asked = <<>>
        /\ last.outcome = NotCalled

\* The last protected request carried a valid token of a user other than
\* the configured owner.
LastNonOwner ==
    /\ config.user_id # None
    /\ LastVerified
    /\ last.answer.token_data.sub # config.user_id

Unverified(h) ==
    \/ h.scheme # "Bearer"
    \/ verify_access_token(h.token, server_url) = NoPayload

\* An answer that is the 401 with the WWW-Authenticate header naming the
\* protected-resource document, the request not passed on.
Is401(answer) ==
    /\ answer.status = 401
    /\ answer.error = "unauthorized"
    /\ answer.www_authenticate = ResourceMetadata
    /\ ~answer.passed
    /\ answer.asked = <<>>

\* C11: a request with no Authorization header, one that does not start with
\* "Bearer ", or one whose token fails verification is answered 401 with
\* WWW-Authenticate naming the protected-resource document and is not passed
\* on, at /mcp, /sse and /message; and every request served so ended so.
C11_Unauthorized ==
    /\ \A h \in Headers, o \in Outcomes \cup {NotCalled} :
          Unverified(h) =>
              /\ Is401(dispatch_response(h, o))
              /\ Is401(sse_endpoint_response(h, o))
              /\ Is401(message_endpoint_response(h, o))
    /\ (last.ep # "" /\ last.answer.token_data = NoPayload) => Is401(last.answer)

C11_Witness ==
    /\ last.ep = "message"
    /\ last.header.scheme = "Bearer"
    /\ last.header.token.kind = "jwt"
    /\ last.answer.status = 401

\* The verify function for a signed token's kind, and that kind's lifetime.
VerifyOwnKind(token, issuer) ==
    IF token.payload.type = "access"
    THEN verify_access_token(token, issuer)
    ELSE verify_refresh_token(token, issuer)
LifetimeOf(token) ==
    IF token.payload.type = "access"
    THEN ACCESS_TOKEN_EXPIRE_SECONDS
    ELSE REFRESH_TOKEN_EXPIRE_SECONDS

\* C12: a token the signer issued at time iat with lifetime N carries
\* exp = iat + N; verified with the secret that signed it and the issuer it
\* names, it is valid one second before iat + N and invalid one second after.
C12_ExpiryBoundary ==
    \A t \in signed :
        LET token == t.token
            expiry == token.payload.iat + LifetimeOf(token)
        IN
        /\ token.payload.exp = expiry
        /\ (get_or_create_secret = token.key /\ now = expiry - 1)
              => VerifyOwnKind(token, token.payload.iss) = token.payload
        /\ (get_or_create_secret = token.key /\ now = expiry + 1)
              => VerifyOwnKind(token, token.payload.iss) = NoPayload
\* A token was verified one second after its expiry, with the secret that
\* signed it, and came back invalid.
C12_Witness ==
    \E t \in signed :
        /\ checked.token = t.token
        /\ checked.type = t.token.payload.type
        /\ checked.issuer = t.token.payload.iss
        /\ jwt_secret = t.token.key
        /\ now = t.token.payload.exp + 1
        /\ checked.result = NoPayload
        /\ VerifyOwnKind(t.token, t.token.payload.iss) = NoPayload

\* The tokens the verify functions are applied to: the signer's own, those a
\* client may present, and strings the signer did not create.
AllTokens == {t.token : t \in signed} \cup PresentedTokens \cup ForeignTokens

\* C13: verify_access_token answers invalid for every refresh token and
\* verify_refresh_token for every access token, whatever issuer is expected;
\* both answer invalid for a token whose iss differs from the expected
\* issuer.
C13_KindAndIssuer ==
    /\ \A token \in AllTokens, i \in Issuers \cup {None} :
          /\ token.payload.type = "refresh"
                => verify_access_token(token, i) = NoPayload
          /\ token.payload.type = "access"
                => verify_refresh_token(token, i) = NoPayload
    /\ \A token \in AllTokens, i \in Issuers :
          token.payload.iss # i
             => /\ verify_access_token(token, i) = NoPayload
                /\ verify_refresh_token(token, i) = NoPayload
\* verify_access_token was given a refresh token the signer issued, unexpired
\* and signed with the current secret, and answered invalid; or a
\* verify function was given such a token of its own kind with another
\* expected issuer.
C13_Witness ==
    \E t \in signed :
        /\ checked.token = t.token
        /\ jwt_secret = t.token.key
        /\ now < t.token.payload.exp
        /\ checked.result = NoPayload
        /\ \/ /\ checked.type = "access"
              /\ t.token.payload.type = "refresh"
              /\ checked.issuer = t.token.payload.iss
           \/ /\ checked.type = t.token.payload.type
              /\ checked.issuer # t.token.payload.iss
        /\ restarts = t.life

\* The token is malformed, signed with another key than the server's, expired,
\* or lacks exp or sub.
Defective(token) ==
    \/ token.kind # "jwt"
    \/ token.key # get_or_create_secret
    \/ token.payload.exp = NoTime
    \/ token.payload.sub = None
    \/ token.payload.exp <= now

CachedForLife ==
    first # NoResolution
       => /\ jwt_secret = first.secret
          /\ get_or_create_secret = first.secret

\* This process and the one before it both resolved the secret, under the
\* same override, and this process found the file as the other left it.
SameSurroundings ==
    /\ first # NoResolution
    /\ prev # NoResolution
    /\ first.env = prev.env
    /\ first.file_before = prev.file_after

\* The secret of the process before is persisted: the override is set or the
\* file holds the secret.
Persisted(resolution) ==
    \/ resolution.env # ""
    \/ resolution.file_after = resolution.secret

\* C15 as stated: the first result is cached for the process's lifetime, and
\* a restarted process under an unchanged file and override resolves the
\* secret of the process before.
C15_AsStated ==
    /\ CachedForLife
    /\ SameSurroundings => first.secret = prev.secret

\* C15: the first result is cached for the process's lifetime, and a
\* restarted process under an unchanged file and override resolves the
\* secret of the process before when that secret is persisted (the override
\* is set, or the file holds the secret).
C15_Idempotent ==
    /\ CachedForLife
    /\ (SameSurroundings /\ Persisted(prev)) => first.secret = prev.secret
\* A restarted process read back from the file the secret the process before
\* it generated.
C15_Witness ==
    /\ restarts > 0
    /\ SameSurroundings
    /\ prev.generated
    /\ prev.file_after = prev.secret
    /\ ~first.generated
    /\ first.secret = prev.secret
    /\ jwt_secret = first.secret

\* The file a resolution found exists and is non-empty.
UsableFile(resolution) ==
    resolution.file_before # None /\ resolution.file_before # ""

\* The choice of a process's first resolution: the override if set, else the
\* usable file's content, else a generated secret that is none of the others;
\* a secret is generated only when there is neither.
ChosenInOrder(resolution) ==
    /\ resolution.env # ""
          => resolution.secret = resolution.env
    /\ (resolution.env = "" /\ UsableFile(resolution))
          => resolution.secret = resolution.file_before
    /\ (resolution.env = "" /\ ~UsableFile(resolution))
          => /\ resolution.generated
             /\ resolution.secret \notin {"", resolution.file_before, prev.secret}
    /\ resolution.generated
          => (resolution.env = "" /\ ~UsableFile(resolution))
    /\ ~resolution.generated
          => resolution.file_after = resolution.file_before

\* C16 as stated: the first resolution of a process chooses in that order,
\* and a generated secret is then in the secret file.
C16_AsStated ==
    first # NoResolution
       => /\ ChosenInOrder(first)
          /\ first.generated => first.file_after = first.secret

\* C16: the first resolution of a process chooses in that order, and a
\* generated secret is then in the secret file when the file can be written;
\* when it cannot, the file is left as it was.
C16_ResolutionOrder ==
    first # NoResolution
       => /\ ChosenInOrder(first)
          /\ (first.generated /\ file_writable)
                => first.file_after = first.secret
          /\ (first.generated /\ ~file_writable)
                => first.file_after = first.file_before
\* The first process found no override and an empty or absent file, generated
\* a secret and wrote it to the file.
C16_Witness ==
    /\ restarts = 0
    /\ first.generated
    /\ first.env = ""
    /\ ~UsableFile(first)
    /\ first.file_after = first.secret
    /\ secret_file = first.secret

\* C17: a token the signer issued in an earlier process, unexpired, verifies
\* in the restarted process, with or without an expected issuer, whenever
\* the secret that process resolves is the one that signed the token; the
\* stores of the restarted process hold nothing about it.
C17_SurvivesRestart ==
    \A t \in signed :
        (/\ t.life < restarts
         /\ now < t.token.payload.exp
         /\ get_or_create_secret = t.token.key)
           => /\ VerifyOwnKind(t.token, t.token.payload.iss) = t.token.payload
              /\ VerifyOwnKind(t.token, None) = t.token.payload
              /\ t.token \notin DOMAIN access_tokens
\* After a restart a token of the process before was verified and found
\* valid, with every store empty.
C17_Witness ==
    \E t \in signed :
        /\ t.life < restarts
        /\ jwt_secret = t.token.key
        /\ checked.token = t.token
        /\ checked.result = t.token.payload
        /\ now < t.token.payload.exp
        /\ access_tokens = Empty
        /\ authorization_codes = Empty

\* The token was signed with a generated secret whose write to the file
\* failed.
SignedUnsaved(t) ==
    /\ t.resolution.generated
    /\ t.resolution.file_after # t.resolution.secret

\* C18: when the write of the generated secret fails, the process still has
\* a secret: it keeps returning it and the tokens it signs verify for the
\* rest of its lifetime; after a restart with no override set those tokens
\* are invalid.
C18_DegradedMode ==
    \A t \in signed :
        SignedUnsaved(t)
           => /\ t.token.key = t.resolution.secret
              /\ t.token.key # ""
              /\ restarts = t.life
                    => /\ get_or_create_secret = t.token.key
                       /\ now < t.token.payload.exp
                             => VerifyOwnKind(t.token, t.token.payload.iss)
                                   = t.token.payload
              /\ (restarts > t.life /\ env_secret = "")
                    => /\ VerifyOwnKind(t.token, t.token.payload.iss) = NoPayload
                       /\ VerifyOwnKind(t.token, None) = NoPayload
\* A token signed with a secret that could not be written was verified,
\* unexpired, by the restarted process, which had generated another secret,
\* and was found invalid.
C18_Witness ==
    \E t \in signed :
        /\ SignedUnsaved(t)
        /\ restarts > t.life
        /\ env_secret = ""
        /\ first.generated
        /\ jwt_secret # t.token.key
        /\ checked.token = t.token
        /\ checked.type = t.token.payload.type
        /\ checked.issuer = t.token.payload.iss
        /\ now < t.token.payload.exp
        /\ checked.result = NoPayload

\* C19: a step in which POST /token returns a token pair adds no entry to any
\* store; the one store it changes is authorization_codes, by the deletion
\* of the redeemed code.
C19_TokensNotStored ==
    [][issued' # issued
          => /\ access_tokens' = access_tokens
             /\ registered_clients' = registered_clients
             /\ pending_authorizations' = pending_authorizations
             /\ authenticated_sessions' = authenticated_sessions
             /\ DOMAIN authorization_codes' \subseteq DOMAIN authorization_codes]_vars

\* C20: every token response carries expires_in = 86400, and the access
\* token it returns is accepted for exactly that long after the response.
C20_Lifetimes ==
    \A p \in issued :
        /\ p.expires_in = ACCESS_TOKEN_EXPIRE_SECONDS
        /\ p.access_token \in DOMAIN access_tokens
              => access_tokens[p.access_token].expires_at
                    = p.at + ACCESS_TOKEN_EXPIRE_SECONDS

\* A session GET /authorize created that is no longer pending: it was denied,
\* consented, or deleted as expired.
Ended(s) == s \in created /\ s \notin DOMAIN pending_authorizations

\* C21: a code is minted only for a session that has an accepted login, and
\* not after that session's expires_at; a session that has ended (denied,
\* consented or deleted as expired) gets 400 from every step and mints no
\* further code; a redeemed code gets no further token.
C21_AttemptOrder ==
    /\ \A c \in DOMAIN minted :
          /\ \E l \in logins : l.session = minted[c].session
          /\ minted[c].at <= minted[c].session_expires_at
          /\ redeemed[c] <= 1
          /\ redeemed[c] = 1
                => \A req \in RequestsNaming(c) : token_response(req).status = 400
    /\ \A s \in created :
          Ended(s)
             => /\ \A a \in ConsentActions :
                      consent_submit_response(s, a).status = 400
                /\ \A e \in Emails, o \in {"ok", "reject", "raise"} :
                      login_submit_response(s, e, "secret1", o).status = 400
                /\ Cardinality({c \in DOMAIN minted : minted[c].session = s}) <= 1

\* The request that redeems code c with verifier v.
Redeeming(c, v) == TokenRequest("form", "authorization_code", c, "c1", v, None)

\* C22: each step of the flow is answered with success in the state the step
\* before it leaves: GET /authorize with response_type=code redirects to the
\* login; a valid login for a pending, unexpired session redirects to
\* consent; POST /consent action=allow for a logged-in session redirects with
\* a code; POST /token with an unexpired code and a verifier whose S256 is
\* the recorded challenge returns 200 with an access token; and every request
\* naming a code that was redeemed returns 400 invalid_grant.
C22_FullFlow ==
    /\ authorize_response("code").status = 302
    /\ authorize_response("code").loc = "login"
    /\ \A s \in DOMAIN pending_authorizations, e \in Emails :
          now <= pending_authorizations[s].expires_at
             => /\ login_submit_response(s, e, "secret1", "ok").status = 302
                /\ login_submit_response(s, e, "secret1", "ok").loc = "consent"
    /\ \A s \in DOMAIN pending_authorizations \cap DOMAIN authenticated_sessions :
          /\ consent_submit_response(s, "allow").status = 302
          /\ consent_submit_response(s, "allow").error = ""
          /\ consent_submit_response(s, "allow").val \notin CodeNames
    /\ \A c \in DOMAIN authorization_codes, v \in Verifiers :
          (/\ now <= authorization_codes[c].expires_at
           /\ S256(v) = authorization_codes[c].code_challenge)
             => /\ token_response(Redeeming(c, v)).status = 200
                /\ token_response(Redeeming(c, v)).val
                      \notin {0} \cup DOMAIN access_tokens
    /\ \A p \in issued :
          p.grant = "authorization_code"
             => \A req \in RequestsNaming(p.code) :
                   /\ token_response(req).status = 400
                   /\ token_response(req).error = "invalid_grant"
\* The whole flow ran: a login was accepted for a session, its code was
\* redeemed with the verifier of its challenge for an access token that is
\* in the response, and the code now gets 400 invalid_grant.
C22_Witness ==
    \E p \in issued :
        /\ p.grant = "authorization_code"
        /\ p.pkce = "verified"
        /\ p.access_token # 0
        /\ p.code \in DOMAIN minted
        /\ \E l \in logins : l.session = minted[p.code].session
        /\ token_response(Redeeming(p.code, "v1")).status = 400
        /\ token_response(Redeeming(p.code, "v1")).error = "invalid_grant"

\* POST /login for session s is a step in which the Identity Collaborator
\* rejected the credentials or raised.
FailedLogin(s) ==
    /\ supabase
    /\ SessionGate("login_submit", s) = NoResponse
    /\ \E e \in Emails, o \in {"reject", "raise"} :
          login_submit(s, e, "secret1", o)

\* POST /login for session s is a step in which the Identity Collaborator
\* accepted the credentials.
AcceptedLogin(s) ==
    /\ supabase
    /\ \E e \in Emails : login_submit(s, e, "secret1", "ok")

\* C23: a POST /login the collaborator rejects or fails on is answered 200
\* with the form, and leaves pending_authorizations (expires_at included) and
\* authenticated_sessions as they were; an entry appears in
\* authenticated_sessions only in a step where the collaborator accepted the
\* login for that session.
C23_FailedLogin ==
    [][/\ \A s \in SessionNames :
             FailedLogin(s)
                => /\ \A e \in Emails, o \in {"reject", "raise"} :
                         login_submit_response(s, e, "secret1", o).status = 200
                   /\ pending_authorizations' = pending_authorizations
                   /\ authenticated_sessions' = authenticated_sessions
       /\ \A s \in DOMAIN authenticated_sessions' :
             (\/ s \notin DOMAIN authenticated_sessions
              \/ authenticated_sessions'[s] # authenticated_sessions[s])
                => AcceptedLogin(s)]_vars

\* C24: a POST /consent with action=deny for a pending session is answered
\* with a 302 to the recorded redirect_uri whose parameters carry
\* error=access_denied, no code, and state exactly when the recorded state is
\* non-empty; the step deletes the session from pending_authorizations and
\* from authenticated_sessions and leaves authorization_codes as it was.
C24_Deny ==
    [][\A s \in DOMAIN pending_authorizations :
          consent_submit(s, "deny")
             => /\ consent_submit_response(s, "deny").status = 302
                /\ consent_submit_response(s, "deny").loc
                      = pending_authorizations[s].redirect_uri
                /\ consent_redirect_params(s, "deny").error = <<"access_denied">>
                /\ consent_redirect_params(s, "deny").code = <<>>
                /\ pending_authorizations[s].state # ""
                      => consent_redirect_params(s, "deny").state
                            = <<pending_authorizations[s].state>>
                /\ pending_authorizations[s].state = ""
                      => consent_redirect_params(s, "deny").state = <<>>
                /\ pending_authorizations' = Del(pending_authorizations, s)
                /\ authenticated_sessions' = Del(authenticated_sessions, s)
                /\ s \notin DOMAIN authenticated_sessions'
                /\ authorization_codes' = authorization_codes
                /\ minted' = minted]_vars
\* A session with an accepted login was denied: no time has passed, the
\* session is in neither store, and no code exists.
C24_Witness ==
    \E s \in created :
        /\ ticks = 0
        /\ \E l \in logins : l.session = s
        /\ s \notin DOMAIN pending_authorizations
        /\ s \notin DOMAIN authenticated_sessions
        /\ minted = Empty
        /\ authorization_codes = Empty

\* C25: every key of authenticated_sessions is a key of
\* pending_authorizations.
C25_Paired ==
    DOMAIN authenticated_sessions \subseteq DOMAIN pending_authorizations

\* A step of an endpoint that looks session s up in pending_authorizations.
ReadsSession(s) ==
    \/ \E r \in {"", "1"} : login_page(s, r)
    \/ \E e \in Emails, o \in {"ok", "reject", "raise"} :
          login_submit(s, e, "secret1", o)
    \/ signup_page(s)
    \/ \E p \in Passwords, o \in {"ok", "reject", "raise"} :
          signup_submit(s, "u1@x", p, p, o)
    \/ consent_page(s)
    \/ \E a \in ConsentActions : consent_submit(s, a)

\* C26: a step of an endpoint that looks up a PendingAuthorization whose
\* expires_at has passed leaves the session out of pending_authorizations and
\* mints no code for it; a POST /token that looks up an AuthorizationCode
\* whose expires_at has passed leaves the code out of authorization_codes and
\* issues nothing.
C26_LazyExpiry ==
    [][/\ \A s \in DOMAIN pending_authorizations :
             (now > pending_authorizations[s].expires_at /\ ReadsSession(s))
                => /\ s \notin DOMAIN pending_authorizations'
                   /\ authorization_codes' = authorization_codes
       /\ \A c \in DOMAIN authorization_codes :
             (/\ now > authorization_codes[c].expires_at
              /\ \E req \in RequestsNaming(c) : token_form(req))
                => /\ c \notin DOMAIN authorization_codes'
                   /\ issued' = issued]_vars

\* C27: GET /authorize with a response_type other than code is answered 400
\* unsupported_response_type and leaves pending_authorizations as it was;
\* with response_type=code it is answered with a 302 to the login that names
\* one session id and no OAuth parameter, and the step adds exactly that
\* session id, never handed out before, with created_at = now and
\* expires_at = created_at + 600, and changes no other entry.
C27_Authorize ==
    [][\A a \in AuthorizeInputs :
          /\ \A rt \in ResponseTypes \ {"code"} :
                /\ authorize_response(rt).status = 400
                /\ authorize_response(rt).error = "unsupported_response_type"
                /\ authorize(rt, a[1], a[2], a[3], a[4], a[5], "S256")
                      => pending_authorizations' = pending_authorizations
          /\ authorize("code", a[1], a[2], a[3], a[4], a[5], "S256")
                => LET r == authorize_response("code") IN
                   /\ r.status = 302
                   /\ r.loc = "login"
                   /\ r.state = ""
                   /\ r.val \notin SessionNames
                   /\ DOMAIN pending_authorizations'
                         = DOMAIN pending_authorizations \cup {r.val}
                   /\ \A s \in DOMAIN pending_authorizations :
                         pending_authorizations'[s] = pending_authorizations[s]
                   /\ pending_authorizations'[r.val].created_at = now
                   /\ pending_authorizations'[r.val].expires_at
                         = pending_authorizations'[r.val].created_at + 600
                   /\ pending_authorizations'[r.val].client_id = a[1]
                   /\ pending_authorizations'[r.val].code_challenge = a[5]]_vars
\* GET /authorize with response_type=code has created the one session there
\* is, which lives 600 seconds.
C27_Witness ==
    \E s \in created :
        /\ DOMAIN pending_authorizations = {s}
        /\ pending_authorizations[s].expires_at
              = pending_authorizations[s].created_at + 600
        /\ authenticated_sessions = Empty
        /\ logins = {}

\* C28: a POST /token with grant_type=refresh_token that carries no
\* refresh_token value is not answered 200, and the step issues no token
\* pair and stores nothing.
C28_RefreshNeedsToken ==
    [][\A req \in TokenRequests :
          (req.grant_type = "refresh_token" /\ req.refresh_token = None)
             => /\ token_json_response(req).status # 200
                /\ token_form(req)
                      => /\ issued' = issued
                         /\ access_tokens' = access_tokens]_vars

\* The requests of TokenRequests whose grant_type, read from the form or from
\* the JSON body, is neither authorization_code nor refresh_token.
UnsupportedRequests ==
    {TokenRequest(b, "password", c, "c1", None, None) :
        b \in {"form", "json"}, c \in CodeNames}
    \cup {TokenRequest("json", None, 0, "c1", None, None)}

\* C29: a POST /token whose grant_type is neither authorization_code nor
\* refresh_token is answered 400 unsupported_grant_type, whatever code it
\* names, and the step changes no store and issues nothing.
C29_UnsupportedGrant ==
    [][/\ \A req \in UnsupportedRequests :
             LET r == token_json_response(req) IN
             r.status = 400 /\ r.error = "unsupported_grant_type"
       /\ \/ UNCHANGED <<stores, issued, redeemed>>
          \/ \A req \in UnsupportedRequests : ~token_form(req)]_vars
\* A code that could be redeemed is in the store, and a request naming it
\* with grant_type=password is answered 400 unsupported_grant_type.
C29_Witness ==
    \E c \in DOMAIN authorization_codes :
        /\ now <= authorization_codes[c].expires_at
        /\ redeemed[c] = 0
        /\ TokenRequest("form", "password", c, "c1", None, None) \in TokenRequests
        /\ token_response(TokenRequest("form", "password", c, "c1", None, None)).error
              = "unsupported_grant_type"

\* C30: a RegisteredClient is immutable once created: no request to any
\* endpoint changes or removes a record POST /register has stored, only
\* POST /register changes the store at all, and each registration adds
\* exactly one record, under a client_id the store did not hold before.
C30_ClientsImmutable ==
    [][ /\ \A c \in DOMAIN registered_clients :
            /\ c \in DOMAIN registered_clients'
            /\ registered_clients'[c] = registered_clients[c]
        /\ registered_clients' # registered_clients
            => \E n \in ClientNames : register_client(n)
        /\ \A n \in ClientNames :
            register_client(n) =>
                LET client_id == register_client_response(n).val
                IN  /\ register_client_response(n).status = 201
                    /\ client_id \notin DOMAIN registered_clients
                    /\ DOMAIN registered_clients'
                         = DOMAIN registered_clients \cup {client_id}
                    /\ registered_clients'[client_id].client_id = client_id
      ]_vars

\* Two clients are registered, the first before and the second after a
\* whole authorization flow that ended in an issued token, and a later
\* instant has passed.
C30_Witness ==
    /\ Cardinality(DOMAIN registered_clients) = 2
    /\ \E c, d \in DOMAIN registered_clients :
            /\ registered_clients[c].created_at = 0
            /\ registered_clients[d].created_at > 0
            /\ registered_clients[c].client_name # registered_clients[d].client_name
    /\ issued # {}

\* The answers of POST /signup that come after a call of
\* _supabase.auth.sign_up.
SignUpCalled ==
    {"sign_up_ok", "sign_up_no_user", "sign_up_already_registered",
     "sign_up_failed"}

\* What _supabase.auth.sign_up can do.
SignUpOutcomes == {"ok", "reject", "raise", "raise_registered"}

\* POST /signup for session s, with any passwords and any collaborator
\* outcome.
SignsUp(s) ==
    \E p \in Passwords, c \in Passwords, o \in SignUpOutcomes :
        signup_submit(s, "u1@x", p, c, o)

\* C31: POST /signup calls the Identity Collaborator only when password
\* equals confirm_password and has at least 6 characters; a POST /signup
\* step leaves authenticated_sessions as it was and leaves the
\* PendingAuthorization of an unexpired session as it was; and POST /consent
\* with action=allow mints no code for a session that has no
\* AuthenticatedSession, so that signing up alone does not let consent
\* proceed.
C31_SignupAlone ==
    [][/\ \A s \in SessionNames, p \in Passwords, c \in Passwords,
            o \in SignUpOutcomes :
              signup_submit_response(s, "u1@x", p, c, o).error \in SignUpCalled
                 => (p = c /\ Len(p) >= MIN_PASSWORD_LEN)
       /\ \A s \in SessionNames :
              SignsUp(s)
                 => /\ authenticated_sessions' = authenticated_sessions
                    /\ (/\ s \in DOMAIN pending_authorizations
                        /\ now <= pending_authorizations[s].expires_at)
                          => pending_authorizations' = pending_authorizations
       /\ \A s \in SessionNames :
              (s \notin DOMAIN authenticated_sessions /\ consent_submit(s, "allow"))
                 => authorization_codes' = authorization_codes]_vars

\* The form-encoded requests that redeem code c with verifier v.
Redeems(c, v) ==
    {TokenRequest("form", "authorization_code", c, cid, v, None) :
        cid \in ClientIds}

\* C32: a POST /token that is refused because its code_verifier fails the
\* PKCE check changes nothing but the record of the refusal: the code stays
\* in authorization_codes with the entry it had and nothing is issued; and
\* as long as a code that was refused is in the store and not past its
\* expires_at, a request with that code and the verifier whose digest is the
\* recorded challenge is answered 200.
C32_PkceFailureKeepsCode ==
    [][/\ \A c \in DOMAIN authorization_codes, v \in Verifiers :
          \A req \in Redeems(c, v) :
             (token_response(req).loc = "pkce_failed" /\ token_form(req))
                => /\ c \in refused'
                   /\ authorization_codes' = authorization_codes
                   /\ access_tokens' = access_tokens
                   /\ issued' = issued
                   /\ redeemed' = redeemed
       /\ \A c \in refused' \cap DOMAIN authorization_codes' :
             now' <= authorization_codes'[c].expires_at
                => \A v \in Verifiers :
                      S256(v) = authorization_codes'[c].code_challenge
                         => \A req \in Redeems(c, v) :
                               token_response(req)'.status = 200]_vars

\* A code was refused for PKCE and was redeemed afterwards.
C32_Witness ==
    \E c \in refused :
        /\ redeemed[c] = 1
        /\ c \notin DOMAIN authorization_codes
        /\ \E t \in issued : TRUE

\* C33: a POST /consent whose action is neither allow nor deny mints no
\* authorization code and consumes no session: it leaves
\* authorization_codes, pending_authorizations and authenticated_sessions as
\* they were.
C33_OnlyAllowMints ==
    [][\A s \in SessionNames, a \in ConsentActions \ {"allow", "deny"} :
          consent_submit(s, a)
             => /\ authorization_codes' = authorization_codes
                /\ minted' = minted
                /\ pending_authorizations' = pending_authorizations
                /\ authenticated_sessions' = authenticated_sessions]_vars

\* The codes minted for session s.
CodesOf(s) == {c \in DOMAIN minted : minted[c].session = s}

\* C34: of two POST /consent requests for the same session id that were
\* waiting for their handlers at the same time, at most one is answered
\* with the redirect (302); the other one is answered 400 invalid session;
\* every answer is a 302 or a 400, and at most one code is minted for the
\* session.
C34_ConsumedOnce ==
    \A k1 \in DOMAIN consents, k2 \in DOMAIN consents :
        (/\ k1 # k2
         /\ consents[k1].together
         /\ consents[k1].session = consents[k2].session)
           => /\ ~(consents[k1].status = 302 /\ consents[k2].status = 302)
              /\ consents[k1].status \in {0, 302, 400}
              /\ (consents[k1].status = 302 /\ consents[k2].status # 0)
                    => /\ consents[k2].status = 400
                       /\ consents[k2].val = 0
              /\ Cardinality(CodesOf(consents[k1].session)) <= 1
              /\ Cardinality({k \in {k1, k2} : consents[k].val # 0}) <= 1

\* Two allow requests for the same session waited together; one minted the
\* session's code and the other was answered 400.
C34_Witness ==
    \E k1 \in DOMAIN consents, k2 \in DOMAIN consents :
        /\ k1 # k2
        /\ consents[k1].together
        /\ consents[k2].together
        /\ consents[k1].session = consents[k2].session
        /\ consents[k1].action = "allow"
        /\ consents[k2].action = "allow"
        /\ consents[k1].status = 302
        /\ consents[k1].val \in CodesOf(consents[k1].session)
        /\ consents[k2].status = 400

\* The answers of the three protected entry points to one request.
AnswersTo(h, o) ==
    {dispatch_response(h, o), sse_endpoint_response(h, o),
     message_endpoint_response(h, o)}

\* The last protected request carried a valid token of the configured owner.
LastOwner == LastVerified /\ last.answer.token_data.sub = config.user_id

\* C35: the Access-Policy Collaborator is asked last.  A request without a
\* Bearer token or with a token that does not verify is answered 401, never
\* 403, and the collaborator is not called for it; a request whose verified
\* token names the configured owner is passed on without a call, and its
\* answer is the same for every answer the collaborator could give; and
\* every request served so ended so.
C35_CollaboratorLast ==
    /\ \A h \in Headers, o \in Outcomes :
          LET token_data == verify_access_token(h.token, server_url) IN
          /\ Unverified(h) =>
                \A r \in AnswersTo(h, o) : r.status = 401 /\ r.asked = <<>>
          /\ (~Unverified(h) /\ token_data.sub = config.user_id) =>
                /\ \A r \in AnswersTo(h, o) : r.passed /\ r.asked = <<>>
                /\ AnswersTo(h, o) = AnswersTo(h, "allowed_false")
    /\ (last.ep # "" /\ last.answer.token_data = NoPayload) =>
          /\ last.outcome = NotCalled
          /\ last.answer.status = 401
    /\ LastOwner =>
          /\ last.outcome = NotCalled
          /\ last.answer.asked = <<>>
          /\ last.answer.passed

\* The owner's request passed the middleware of a server that has a
\* resource name to ask the collaborator about.
C35_Witness ==
    /\ LastOwner
    /\ last.ep = "mcp"
    /\ config.user_id # None
    /\ config.robot_name # None
    /\ last.outcome = NotCalled
    /\ last.answer.passed

\* C36: a POST /token that presents a client_id other than the one recorded
\* in the code is answered invalid_grant and issues nothing.
C36_CodeBoundToClient ==
    [][\A c \in DOMAIN authorization_codes, cid \in ClientIds, v \in Verifiers :
          \A req \in {TokenRequest("form", "authorization_code", c, cid, v, None)} :
             (cid # authorization_codes[c].client_id /\ token_form(req))
                => /\ token_response(req).error = "invalid_grant"
                   /\ issued' = issued]_vars

\* The token pairs issued for a redeemed code: the pairs a refresh_token
\* grant can be refreshing.
Originals == {q \in issued : q.grant = "authorization_code"}

\* The user an access_tokens entry names; <<>> when it names none.
SubjectOf(entry) ==
    IF "user_id" \in DOMAIN entry THEN <<entry.user_id>> ELSE <<>>

\* C37: a token pair issued by the refresh_token grant has the scope and the
\* user of a token pair issued before it for a redeemed code.
C37_RefreshKeepsGrant ==
    [][\A req \in {TokenRequest("form", "refresh_token", 0, "c1", None, "rt")} :
          (token_form(req) /\ issued' # issued /\ Originals # {})
             => \E q \in Originals :
                   /\ TokenPair(req).scope = q.scope
                   /\ SubjectOf(TokenEntry(req)) = <<q.auth[1].user_id>>]_vars

\* The statuses of the responses the handlers build themselves.
ExplicitStatuses == {200, 201, 302, 400, 401, 403}

\* C38: in every reachable state, every request to an endpoint of the
\* authorization flow and every protected request, with every outcome of
\* the collaborator it calls, is answered with a status among 200, 201, 302,
\* 400, 401 and 403.
C38_ExplicitResponses ==
    /\ \A n \in ClientNames \cup {NotAnObject} :
          register_client_response(n).status \in ExplicitStatuses
    /\ \A rt \in ResponseTypes : authorize_response(rt).status \in ExplicitStatuses
    /\ \A s \in SessionNames :
          /\ \A r \in {"", "1"} :
                login_page_response(s, r).status \in ExplicitStatuses
          /\ \A e \in Emails, o \in {"ok", "reject", "raise"} :
                login_submit_response(s, e, "secret1", o).status
                   \in ExplicitStatuses
          /\ signup_page_response(s).status \in ExplicitStatuses
          /\ \A p \in Passwords, c \in Passwords, o \in SignUpOutcomes :
                signup_submit_response(s, "u1@x", p, c, o).status
                   \in ExplicitStatuses
          /\ consent_page_response(s).status \in ExplicitStatuses
          /\ \A a \in ConsentActions :
                consent_submit_response(s, a).status \in ExplicitStatuses
    /\ \A req \in TokenRequests :
          token_json_response(req).status \in ExplicitStatuses
    /\ \A h \in Headers, o \in Outcomes :
          dispatch_response(h, o).status \in ExplicitStatuses

=============================================================================
